---------------------------- MODULE Spec2Model ----------------------------
(***************************************************************************)
(* A model of the ZIP writer (zip), the directory flattener (flatten) and  *)
(* the ZIP reader (unzip) of UZIP.js, with the byte primitives, the string *)
(* codec and the CRC-32 they rest on.                                      *)
(*                                                                         *)
(* Conventions.                                                            *)
(*  - A Uint8Array is a sequence of bytes 0..255; the code's 0-based       *)
(*    offset o is the sequence index o + 1.                                *)
(*  - A string is a sequence of code points of the Basic Multilingual      *)
(*    Plane (one UTF-16 code unit each), so Len is the JS string length.   *)
(*  - undefined is the value Undef; an options object is a function whose  *)
(*    DOMAIN is the set of keys it holds, { ...a, ...b } is  b @@ a.       *)
(*  - A Zippable (a JS object) is a sequence of <<key, value>> pairs in    *)
(*    insertion order with distinct keys.                                  *)
(***************************************************************************)
EXTENDS Integers, Sequences, FiniteSets, TLC

VARIABLES
    data,       \* the Zippable handed to zip / flatten
    opts,       \* the global ZipOptions
    now,        \* the wall clock read by  new Date()
    flat,       \* what draining flatten(data, opts) produced
    zipped,     \* the outcome of zip(data, opts)
    input,      \* the buffer handed to unzip
    filter,     \* the UnzipOptions.filter of the unzip call
    unz,        \* the outcome of the unzip call and the generator's position
    yielded,    \* the UnzipFile objects the generator has yielded so far
    localReads  \* the local-header offsets the generator has read

vars == <<data, opts, now, flat, zipped, input, filter, unz, yielded, localReads>>

Undef == "undefined"
\* the value of an outcome before the call is made
NotCalled == [kind |-> "not called"]
Called(outcome) == outcome.kind # "not called"

-----------------------------------------------------------------------------
(* Integer helpers.  A JS number is an integer of the model when it fits   *)
(* in a signed 32-bit word (what the bitwise operators of JS return); the  *)
(* unsigned values the reader takes from a buffer are kept as Num, below.  *)

Pow2(n) == 2 ^ n

Min(a, b) == IF a < b THEN a ELSE b
Max(a, b) == IF a > b THEN a ELSE b

SetMax(S) == CHOOSE x \in S : \A y \in S : y <= x
SetMin(S) == CHOOSE x \in S : \A y \in S : x <= y

\* bit i of the two's-complement word a: bit 31 is the sign
Bit(a, i) == IF i = 31 THEN (IF a < 0 THEN 1 ELSE 0) ELSE (a \div Pow2(i)) % 2

BitOp(op, x, y) ==
    IF op = "&" THEN (IF x = 1 /\ y = 1 THEN 1 ELSE 0)
    ELSE IF op = "|" THEN (IF x = 1 \/ y = 1 THEN 1 ELSE 0)
    ELSE (IF x # y THEN 1 ELSE 0)

\* bits lo..hi (below the sign) of a op b, each in its place
RECURSIVE BitsOf(_, _, _, _, _)
BitsOf(op, a, b, lo, hi) ==
    IF lo = hi THEN BitOp(op, Bit(a, lo), Bit(b, lo)) * Pow2(lo)
    ELSE LET mid == (lo + hi) \div 2
         IN  BitsOf(op, a, b, lo, mid) + BitsOf(op, a, b, mid + 1, hi)

\* a op b as a signed 32-bit word, bit by bit
Bitwise(op, a, b) ==
    IF a = b THEN (IF op = "^" THEN 0 ELSE a)
    ELSE LET sign == BitOp(op, Bit(a, 31), Bit(b, 31))
         IN  (BitsOf(op, a, b, 0, 30) - sign * Pow2(30)) - sign * Pow2(30)

And32(a, b) == Bitwise("&", a, b)
Or32(a, b) == Bitwise("|", a, b)
Xor32(a, b) == Bitwise("^", a, b)

\* ~a
Not32(a) == -a - 1

\* a << n for 0 < n < 32: bit 31 - n of a becomes the sign, the bits below it
\* the value
Shl32(a, n) ==
    LET low == (a % Pow2(31 - n)) * Pow2(n)
    IN  IF (a \div Pow2(31 - n)) % 2 = 1 THEN (low - Pow2(30)) - Pow2(30) ELSE low

\* a >>> n for 0 < n < 32
Shr32U(a, n) ==
    IF a >= 0 THEN a \div Pow2(n)
    ELSE ((a \div Pow2(n)) + Pow2(31 - n)) + Pow2(31 - n)

\* a >> n
Shr32(a, n) == a \div Pow2(n)

-----------------------------------------------------------------------------
(* Num: an unsigned number read from a buffer (up to 64 bits), kept as its *)
(* little-endian bytes without trailing zero bytes, so that 0xFFFFFFFF and *)
(* the 8-byte ZIP64 values have a value in the model.  Equality of Nums is *)
(* equality of the numbers.                                                *)

RECURSIVE Strip(_)
Strip(bytes) ==
    IF bytes = <<>> THEN <<>>
    ELSE IF bytes[Len(bytes)] = 0 THEN Strip(SubSeq(bytes, 1, Len(bytes) - 1))
    ELSE bytes

RECURSIVE NumOfInt(_)
NumOfInt(i) == IF i = 0 THEN <<>> ELSE <<i % 256>> \o NumOfInt(i \div 256)

RECURSIVE AddBytes(_, _, _)
AddBytes(a, b, carry) ==
    IF a = <<>> /\ b = <<>> THEN (IF carry = 0 THEN <<>> ELSE <<carry>>)
    ELSE LET x == IF a = <<>> THEN 0 ELSE a[1]
             y == IF b = <<>> THEN 0 ELSE b[1]
             s == x + y + carry
         IN  <<s % 256>> \o AddBytes(IF a = <<>> THEN a ELSE Tail(a),
                                     IF b = <<>> THEN b ELSE Tail(b), s \div 256)

NumAdd(a, b) == Strip(AddBytes(a, b, 0))

\* a + i for an integer i >= 0
NumPlus(a, i) == NumAdd(a, NumOfInt(i))

RECURSIVE NumLess(_, _)
NumLess(a, b) ==
    IF Len(a) # Len(b) THEN Len(a) < Len(b)
    ELSE IF a = <<>> THEN FALSE
    ELSE IF a[Len(a)] # b[Len(b)] THEN a[Len(a)] < b[Len(b)]
    ELSE NumLess(SubSeq(a, 1, Len(a) - 1), SubSeq(b, 1, Len(b) - 1))

\* an index beyond every buffer of the model
Far == Pow2(30)

\* the Num as an index into a buffer: every index from Far on is outside
RECURSIVE IntOfBytes(_)
IntOfBytes(bytes) == IF bytes = <<>> THEN 0 ELSE bytes[1] + 256 * IntOfBytes(Tail(bytes))

IndexOf(n) ==
    IF Len(n) > 4 \/ (Len(n) = 4 /\ n[4] >= 64) THEN Far ELSE IntOfBytes(n)

-----------------------------------------------------------------------------
(* Byte primitives (bytes.ts).  Reading an index outside a Uint8Array      *)
(* gives undefined, which the bitwise operators turn into 0; an indexed    *)
(* store outside the array is dropped; TypedArray.set outside the array    *)
(* throws a RangeError.                                                    *)

Byte(buffer, byteOffset) ==
    IF byteOffset >= 0 /\ byteOffset < Len(buffer) THEN buffer[byteOffset + 1] ELSE 0

getUint16(buffer, byteOffset) ==
    Byte(buffer, byteOffset) + 256 * Byte(buffer, byteOffset + 1)

getUint32(buffer, byteOffset) ==
    Strip(<<Byte(buffer, byteOffset), Byte(buffer, byteOffset + 1),
            Byte(buffer, byteOffset + 2), Byte(buffer, byteOffset + 3)>>)

\* getUint32(lo) + getUint32(hi) * 0x100000000, exact (the rounding of a double
\* above 2^53 is not modelled)
getUint64(buffer, byteOffset) ==
    Strip([i \in 1..8 |-> Byte(buffer, byteOffset + i - 1)])

\* the indexed stores  buffer[byteOffset + i] = bytes[i]: those outside the
\* array are dropped
Store(buffer, byteOffset, bytes) ==
    LET lo == Max(byteOffset, 0)
        hi == Min(byteOffset + Len(bytes), Len(buffer))
    IN  IF hi <= lo THEN buffer
        ELSE SubSeq(buffer, 1, lo) \o SubSeq(bytes, lo - byteOffset + 1, hi - byteOffset)
                \o SubSeq(buffer, hi + 1, Len(buffer))

\* what  buffer[byteOffset] = value  stores in a Uint8Array
U8Of(value) == <<value % 256>>

\* the bytes that  for (; value; ++byteOffset) buffer[byteOffset] = value, value >>>= 8
\* stores: none for 0, else the low byte and then those of the unsigned 32-bit rest
RECURSIVE UintRest(_)
UintRest(value) ==
    IF value = 0 THEN <<>> ELSE <<value % 256>> \o UintRest(value \div 256)

UintBytes(value) ==
    IF value = 0 THEN <<>> ELSE <<value % 256>> \o UintRest(Shr32U(value, 8))

setUint(buffer, byteOffset, value) == Store(buffer, byteOffset, UintBytes(value))

\* one run of indexed stores: the bytes stored from byteOffset on
W(byteOffset, bytes) == [at |-> byteOffset, bytes |-> bytes]

\* the buffer after the runs of stores of writes, made in that order: a byte
\* is what the last run over it stored, or what it was
StoreAll(buffer, writes) ==
    LET used == {k \in DOMAIN writes : writes[k].bytes # <<>>}
    IN  IF used = {} THEN buffer
        ELSE LET lo == SetMin({writes[k].at : k \in used})
                 hi == SetMax({writes[k].at + Len(writes[k].bytes) : k \in used})
                 region ==
                    [j \in 1..(hi - lo) |->
                        LET i == lo + j - 1
                            over == {k \in used : /\ writes[k].at <= i
                                                  /\ i < writes[k].at + Len(writes[k].bytes)}
                        IN  IF over = {} THEN Byte(buffer, i)
                            ELSE writes[SetMax(over)].bytes[i - writes[SetMax(over)].at + 1]]
             IN  Store(buffer, lo, region)

\* buffer.set(array, offset): whether it throws, and the buffer after it
SetThrows(buffer, array, offset) == offset < 0 \/ offset + Len(array) > Len(buffer)

BufferSet(buffer, array, offset) ==
    IF Len(array) = 0 THEN buffer
    ELSE SubSeq(buffer, 1, offset) \o array \o SubSeq(buffer, offset + Len(array) + 1, Len(buffer))

\* data.slice(begin, end) for 0 <= begin: clamped to the array
Slice(buffer, begin, end) ==
    SubSeq(buffer, Min(begin, Len(buffer)) + 1, Min(end, Len(buffer)))

\* new Uint8Array(n)
Zeros(n) == [i \in 1..n |-> 0]

-----------------------------------------------------------------------------
(* Strings (str-buffer.ts): TextEncoder.encode is UTF-8; decode is Latin-1 *)
(* byte by byte or TextDecoder's (non-fatal) UTF-8.                        *)

\* one byte for every character, as Latin-1 would give
encodeCharLatin1(c) == <<c % 256>>

encodeChar(c) ==
    IF c < 128 THEN <<c>>
    ELSE IF c < 2048 THEN <<192 + (c \div 64), 128 + (c % 64)>>
    ELSE <<224 + (c \div 4096), 128 + ((c \div 64) % 64), 128 + (c % 64)>>

\* halving keeps the recursion shallow for names of 65536 characters
RECURSIVE encode(_)
encode(str) ==
    IF Len(str) = 0 THEN <<>>
    ELSE IF Len(str) = 1 THEN encodeChar(str[1])
    ELSE LET mid == Len(str) \div 2
         IN  encode(SubSeq(str, 1, mid)) \o encode(SubSeq(str, mid + 1, Len(str)))

IsCont(b) == b >= 128 /\ b < 192

\* the replacement character U+FFFD
Replacement == 65533

RECURSIVE decodeUtf8(_)
decodeUtf8(dat) ==
    IF dat = <<>> THEN <<>>
    ELSE LET b == dat[1] IN
        IF b < 128 THEN <<b>> \o decodeUtf8(Tail(dat))
        ELSE IF b >= 194 /\ b < 224 /\ Len(dat) >= 2 /\ IsCont(dat[2])
            THEN <<(b - 192) * 64 + (dat[2] - 128)>> \o decodeUtf8(SubSeq(dat, 3, Len(dat)))
        ELSE IF b >= 224 /\ b < 240 /\ Len(dat) >= 3 /\ IsCont(dat[2]) /\ IsCont(dat[3])
                /\ (b - 224) * 4096 + (dat[2] - 128) * 64 + (dat[3] - 128) >= 2048
            THEN <<(b - 224) * 4096 + (dat[2] - 128) * 64 + (dat[3] - 128)>>
                    \o decodeUtf8(SubSeq(dat, 4, Len(dat)))
        ELSE <<Replacement>> \o decodeUtf8(Tail(dat))

decode(dat, latin1) == IF latin1 THEN dat ELSE decodeUtf8(dat)

-----------------------------------------------------------------------------
(* The checksum of an entry (crc32.ts), on signed 32-bit words as the code *)
(* computes it.                                                            *)

\* 0xedb88320 as the signed word the ^ operator sees
Polynomial == -306674912

\* c after k rounds of  c = (c & 1 ? 0xedb88320 : 0) ^ (c >>> 1)
RECURSIVE CRC32Step(_, _)
CRC32Step(i, k) ==
    IF k = 0 THEN i
    ELSE LET c == CRC32Step(i, k - 1)
         IN  IF c % 2 = 1 THEN Xor32(Polynomial, Shr32U(c, 1)) ELSE Xor32(0, Shr32U(c, 1))

makeCRC32Table == [i \in 0..255 |-> CRC32Step(i, 8)]

CRC32Table == makeCRC32Table

\* crc after the bytes bytes[1..n], from -1
RECURSIVE crc32Loop(_, _)
crc32Loop(bytes, n) ==
    IF n = 0 THEN -1
    ELSE LET crc == crc32Loop(bytes, n - 1)
         IN  Xor32(CRC32Table[And32(Xor32(crc, bytes[n]), 255)], Shr32U(crc, 8))

\* the final ~ is left out
crc32Raw(bytes) == crc32Loop(bytes, Len(bytes))

crc32(bytes) == Not32(crc32Loop(bytes, Len(bytes)))

-----------------------------------------------------------------------------
(* The tree handed to zip (zippable.ts).  A ZippableFile is a Uint8Array,  *)
(* a nested Zippable, or a pair [Uint8Array | Zippable, ZipAttributes].    *)

U8(b) == [t |-> "u8", b |-> b]
Dir(d) == [t |-> "dir", d |-> d]
Arr(v, a) == [t |-> "arr", v |-> v, a |-> a]

\* the values of the compression attribute: undefined, a method name, or a
\* tuple [name, compresser]
NoCompression == [t |-> "undefined"]
ByName(name) == [t |-> "name", name |-> name]
ByTuple(name, compress) == [t |-> "tuple", name |-> name, compress |-> compress]

compressionNameToNumber == [deflate |-> 8, lzma |-> 14, zstd |-> 93]

\* the empty Uint8Array and the empty options object {}
empty == <<>>
EmptyObject == <<>>

Has(obj, key) == key \in DOMAIN obj

Slash == 47

\* k.indexOf("/")
indexOf(k, c) ==
    IF \E i \in 1..Len(k) : k[i] = c
    THEN (CHOOSE i \in 1..Len(k) : k[i] = c /\ \A j \in 1..(i - 1) : k[j] # c) - 1
    ELSE -1

(* for (const k in directory): the keys that are canonical array indices   *)
(* come first, in ascending numeric order, then the other keys in          *)
(* insertion order (OrdinaryOwnPropertyKeys).  Keys of the model are short *)
(* enough for every canonical number to be an array index.                 *)
IsDigit(c) == c >= 48 /\ c <= 57

IsArrayIndex(k) ==
    /\ Len(k) >= 1 /\ Len(k) <= 9
    /\ \A i \in 1..Len(k) : IsDigit(k[i])
    /\ (Len(k) > 1 => k[1] # 48)

RECURSIVE KeyNumber(_)
KeyNumber(k) ==
    IF k = <<>> THEN 0 ELSE 10 * KeyNumber(SubSeq(k, 1, Len(k) - 1)) + (k[Len(k)] - 48)

RECURSIVE Ascending(_, _)
Ascending(obj, S) ==
    IF S = {} THEN <<>>
    ELSE LET i == CHOOSE x \in S : \A y \in S : KeyNumber(obj[x][1]) <= KeyNumber(obj[y][1])
         IN  <<obj[i]>> \o Ascending(obj, S \ {i})

RECURSIVE Others(_)
Others(obj) ==
    IF obj = <<>> THEN <<>>
    ELSE (IF IsArrayIndex(obj[1][1]) THEN <<>> ELSE <<obj[1]>>) \o Others(Tail(obj))

\* the keys in insertion order, whatever they are
ForInInsertion(obj) == obj

ForIn(obj) ==
    Ascending(obj, {i \in 1..Len(obj) : IsArrayIndex(obj[i][1])}) \o Others(obj)

-----------------------------------------------------------------------------
(* flatten (zippable.ts).  The generator is drained: out is what it has    *)
(* yielded, in order, and thrown the Error that ended it, if any.          *)

NoError == <<>>

Entry(n, val, op) == [name |-> n, file |-> val, p |-> op]

\* let { compression, ...rest } = val[1]
CompressionOf(attrs) == IF Has(attrs, "compression") THEN attrs["compression"] ELSE NoCompression
RestOf(attrs) == [key \in (DOMAIN attrs) \ {"compression"} |-> attrs[key]]

\* globalOptions.compressionMethods?.[compression]
Compresser(globalOptions, name) ==
    IF Has(globalOptions, "compressionMethods") /\ Has(globalOptions["compressionMethods"], name)
    THEN globalOptions["compressionMethods"][name]
    ELSE Undef

\* a set that remembers nothing
hasNever(yieldedPath, n) == FALSE

\* yieldedPath.has(n)
has(yieldedPath, n) == n \in yieldedPath

RECURSIVE flattenImpl(_, _, _, _)
RECURSIVE flattenLoop(_, _, _, _)

\* one turn of the loop body, for the key k and its value
flattenKey(k, value, globalOptions, path, st) ==
    LET n == path \o k
        slashIndex == indexOf(k, Slash)
    IN
    IF slashIndex > -1
    THEN LET dir == SubSeq(k, 1, slashIndex)
             rest == SubSeq(k, slashIndex + 2, Len(k))
         IN  flattenImpl(<< <<dir, Dir(<< <<rest, value>> >>)>> >>, globalOptions, path, st)
    ELSE
    LET isArray == value.t = "arr"
        val == IF isArray THEN value.v ELSE value
        given == IF isArray THEN CompressionOf(value.a) ELSE NoCompression
        named == isArray /\ given.t = "name" /\ given.name # ""
        compresser == IF named THEN Compresser(globalOptions, given.name) ELSE Undef
        compression == IF named THEN ByTuple(given.name, compresser) ELSE given
        op == IF isArray
              THEN ("compression" :> compression) @@ RestOf(value.a) @@ globalOptions
              ELSE globalOptions
    IN
    IF named /\ compresser = Undef
    THEN [st EXCEPT !.thrown = <<"Compression method not found", given.name>>]
    ELSE IF val.t = "u8"
    THEN IF has(st.yieldedPath, n)
         THEN [st EXCEPT !.thrown = <<"Duplicate file", n>>]
         ELSE [st EXCEPT !.out = Append(@, Entry(n, val.b, op)),
                         !.yieldedPath = @ \cup {n}]
    ELSE LET nd == n \o <<Slash>>
             after == [st EXCEPT
                          !.out = IF has(st.yieldedPath, nd) THEN @
                                  ELSE Append(@, Entry(nd, empty, EmptyObject)),
                          !.yieldedPath = @ \cup {nd}]
         IN  flattenImpl(val.d, op, nd, after)

flattenLoop(keys, globalOptions, path, st) ==
    IF keys = <<>> \/ st.thrown # NoError THEN st
    ELSE flattenLoop(Tail(keys), globalOptions, path,
                     flattenKey(keys[1][1], keys[1][2], globalOptions, path, st))

flattenImpl(directory, globalOptions, path, st) ==
    flattenLoop(ForIn(directory), globalOptions, path, st)

flatten(directory, globalOptions) ==
    flattenImpl(directory, globalOptions, <<>>,
                [kind |-> "flattened", out |-> <<>>, yieldedPath |-> {}, thrown |-> NoError])

-----------------------------------------------------------------------------
(* Results (result.ts), error values (error.ts) and constants              *)
(* (constants.ts).                                                         *)

ExtraFieldTooLong == 5
InvalidDate == 6
FilenameTooLong == 7
InvalidZipData == 7
UnknownCompressionMethod == 9

fileNameTooLongError(fileName) == [code |-> FilenameTooLong, name |-> fileName]

extraFieldTooLongError(fileName, key, value) ==
    [code |-> ExtraFieldTooLong, name |-> fileName, key |-> key, value |-> value]

invalidDateError(fileName, mtime) == [code |-> InvalidDate, name |-> fileName, mtime |-> mtime]

invalidZipDataError == [code |-> InvalidZipData]

createErr(err) == [kind |-> "err", err |-> err]

\* an exception leaving the call
Throw(error) == [kind |-> "throw", error |-> error]

RangeError == <<"RangeError", "offset is out of bounds">>

CENTRAL_DIRECTORY_FILE_HEADER_SIGNATURE == 33639248
LOCAL_FILE_HEADER_SIGNATURE == 67324752
END_OF_CENTRAL_DIRECTORY_RECORD_SIGNATURE == 101010256
ZIP64_END_OF_CENTRAL_DIRECTORY_RECORD_SIGNATURE == 101075792
MIN_END_OF_CENTRAL_DIRECTORY_SIZE == 22
MIN_LOCAL_FILE_HEADER_SIZE == 30

-----------------------------------------------------------------------------
(* The compresser a caller registers: deflate at level 0 (deflate.ts),     *)
(* which emits stored blocks of at most 65535 bytes.                       *)

\* wfblk: LEN, its complement, the bytes
wfblk(dat) ==
    LET len == Len(dat)
    IN  <<len % 256, len \div 256, 255 - (len % 256), 255 - (len \div 256)>> \o dat

\* the loop  for (i = 0; i < s + lst; i += 65535)  of dflt, with lst = 1
RECURSIVE dfltStored(_, _)
dfltStored(dat, i) ==
    IF i >= Len(dat) + 1 THEN <<>>
    ELSE LET final == i + 65535 >= Len(dat)
             e == IF final THEN Len(dat) ELSE i + 65535
         IN  <<IF final THEN 1 ELSE 0>> \o wfblk(SubSeq(dat, i + 1, e))
                \o dfltStored(dat, i + 65535)

\* (data) => deflate(data, { level: 0 })
deflate(dat) == dfltStored(dat, 0)

\* compress(file), for the compressers of the model
Compress(compress, file) == deflate(file)

-----------------------------------------------------------------------------
(* zip (zip.ts).                                                           *)

\* an optional value: <<>> is undefined, <<v>> is v
Maybe(obj, key) == IF Has(obj, key) THEN <<obj[key]>> ELSE <<>>

RECURSIVE SortedIds(_)
SortedIds(S) ==
    IF S = {} THEN <<>>
    ELSE LET k == CHOOSE x \in S : \A y \in S : x <= y IN <<k>> \o SortedIds(S \ {k})

\* for (const k in extra): the ids are array indices, so they come ascending
ExtraKeys(extra) == SortedIds(DOMAIN extra)

RECURSIVE SumExtra(_, _)
SumExtra(extra, keys) ==
    IF keys = <<>> THEN 0 ELSE Len(extra[keys[1]]) + 4 + SumExtra(extra, Tail(keys))

\* The Err built for a payload longer than 0xffff is not returned (there is
\* no  return  before createErr), so the sum is the result for every extra.
getExtraFieldLength(fileName, extra) ==
    IF extra = <<>> THEN [kind |-> "ok", val |-> 0]
    ELSE [kind |-> "ok", val |-> SumExtra(extra[1], ExtraKeys(extra[1]))]

\* the extra records, written one after the other from byteOffset on
RECURSIVE writeExtra(_, _, _, _)
writeExtra(buffer, byteOffset, extra, keys) ==
    IF keys = <<>> THEN [kind |-> "ok", buffer |-> buffer, val |-> byteOffset]
    ELSE LET exf == extra[keys[1]]
             l == Len(exf)
             b1 == setUint(setUint(buffer, byteOffset, keys[1]), byteOffset + 2, l)
         IN  IF SetThrows(b1, exf, byteOffset + 4) THEN Throw(RangeError)
             ELSE writeExtra(BufferSet(b1, exf, byteOffset + 4), byteOffset + 4 + l,
                             extra, Tail(keys))

\* the date and time with the month as getMonth() gives it, counted from 0
DosDateTimeFromZero(dt) ==
    Or32(Or32(Or32(Or32(Or32(Shl32(dt.year - 1980, 25), Shl32(dt.month, 21)),
                        Shl32(dt.date, 16)),
                   Shl32(dt.hours, 11)),
              Shl32(dt.minutes, 5)),
         Shr32(dt.seconds, 1))

\* the MS-DOS date and time of the header
DosDateTime(dt) ==
    Or32(Or32(Or32(Or32(Or32(Shl32(dt.year - 1980, 25), Shl32(dt.month + 1, 21)),
                        Shl32(dt.date, 16)),
                   Shl32(dt.hours, 11)),
              Shl32(dt.minutes, 5)),
         Shr32(dt.seconds, 1))

\* every year is taken
YearInRangeAlways(y) == TRUE

\* !(y < 0 || y > 119)
YearInRange(y) == ~(y < 0 \/ y > 119)

\* the stores of the fixed fields of a header at byteOffset, in program order
HeaderFields(byteOffset, m, localHeaderOffset, dt) ==
    LET central == localHeaderOffset # <<>>
        o2 == IF central THEN byteOffset + 6 ELSE byteOffset + 4
        o7 == o2 + 10
        o9 == o7 + 16
        commentLength == IF m.comment = <<>> THEN 0 ELSE Len(m.comment[1])
    IN  <<W(byteOffset, UintBytes(IF central THEN CENTRAL_DIRECTORY_FILE_HEADER_SIGNATURE
                                  ELSE LOCAL_FILE_HEADER_SIGNATURE))>>
        \o (IF central THEN <<W(byteOffset + 4, U8Of(IF m.os = <<>> THEN 0 ELSE m.os[1]))>>
            ELSE <<>>)
        \o <<W(o2, U8Of(20)),
             W(o2 + 2, U8Of(Or32(Shl32(m.flag, 1), IF m.compressedSize < 0 THEN 8 ELSE 0))),
             W(o2 + 3, U8Of(IF m.unicode THEN 8 ELSE 0)),
             W(o2 + 4, UintBytes(m.compressionMethod)),
             W(o2 + 6, UintBytes(DosDateTime(dt)))>>
        \o (IF m.compressedSize # -1
            THEN <<W(o7, UintBytes(m.crc)),
                   W(o7 + 4, UintBytes(IF m.compressedSize < 0 THEN -m.compressedSize - 2
                                       ELSE m.compressedSize)),
                   W(o7 + 8, UintBytes(m.uncompressedSize))>>
            ELSE <<>>)
        \o <<W(o7 + 12, UintBytes(Len(m.fileName))),
             W(o7 + 14, UintBytes(m.extraFieldLength))>>
        \o (IF central
            THEN (IF commentLength # 0 THEN <<W(o9, UintBytes(commentLength))>> ELSE <<>>)
                 \o (IF m.externalFileAttributes # <<>> /\ m.externalFileAttributes[1] # 0
                     THEN <<W(o9 + 6, UintBytes(m.externalFileAttributes[1]))>>
                     ELSE <<>>)
                 \o <<W(o9 + 10, UintBytes(localHeaderOffset[1]))>>
            ELSE <<>>)

\* the end of writeZipHeader: the file comment, after the extra field ex left
writeComment(ex, comment) ==
    IF ex.kind # "ok" THEN ex
    ELSE IF comment = <<>> THEN ex
    ELSE IF Len(comment[1]) = 0 THEN ex
    ELSE IF SetThrows(ex.buffer, comment[1], ex.val) THEN Throw(RangeError)
    ELSE [kind |-> "ok", buffer |-> BufferSet(ex.buffer, comment[1], ex.val),
          val |-> ex.val + Len(comment[1])]

\* the extra field, from byteOffset on in the buffer that holds the file name
writeExtraField(buffer, byteOffset, m) ==
    IF m.extraFieldLength # 0 /\ m.extra # <<>>
    THEN writeExtra(buffer, byteOffset, m.extra[1], ExtraKeys(m.extra[1]))
    ELSE [kind |-> "ok", buffer |-> buffer, val |-> byteOffset]

\* the file name at byteOffset, in the buffer that holds the fixed fields, and
\* what follows it
writeFileName(buffer, byteOffset, m) ==
    IF SetThrows(buffer, m.fileName, byteOffset) THEN Throw(RangeError)
    ELSE writeComment(writeExtraField(BufferSet(buffer, m.fileName, byteOffset),
                                      byteOffset + Len(m.fileName), m),
                      m.comment)

(* writeZipHeader: a local file header when localHeaderOffset is undefined, *)
(* a central directory file header otherwise.  m is the tuple zip keeps for *)
(* the entry.  The result is the buffer and the offset after the header, an *)
(* InvalidDate Err, or the RangeError of a buffer.set outside the buffer.   *)
writeZipHeader(buffer, byteOffset, m, localHeaderOffset) ==
    LET dt == IF m.mtime = <<>> THEN now ELSE m.mtime[1]
        y == dt.year - 1980
        o10 == IF localHeaderOffset # <<>> THEN byteOffset + 46 ELSE byteOffset + 30
    IN  IF ~YearInRange(y) THEN createErr(invalidDateError(m.fileNameStr, dt))
        ELSE writeFileName(StoreAll(buffer, HeaderFields(byteOffset, m, localHeaderOffset, dt)),
                           o10, m)

\* the end of writeEndOfCentralDirectory: the archive comment and its length
writeZipComment(buffer, endOfCentralDirectoryOffset, comment, commentLength) ==
    IF comment # <<>> /\ commentLength # 0
    THEN IF SetThrows(buffer, comment[1], endOfCentralDirectoryOffset + 22)
         THEN Throw(RangeError)
         ELSE [kind |-> "ok",
               val |-> BufferSet(setUint(buffer, endOfCentralDirectoryOffset + 20, commentLength),
                                 comment[1], endOfCentralDirectoryOffset + 22)]
    ELSE [kind |-> "ok", val |-> buffer]

\* no end of central directory record is written
writeNoEndOfCentralDirectory(buffer, endOfCentralDirectoryOffset, centralDirectoryCount, centralDirectorySize, centralDirectoryOffsetWithDisk, comment, commentLength) ==
    [kind |-> "ok", val |-> buffer]

writeEndOfCentralDirectory(buffer, endOfCentralDirectoryOffset, centralDirectoryCount, centralDirectorySize, centralDirectoryOffsetWithDisk, comment, commentLength) ==
    writeZipComment(
        StoreAll(buffer,
            <<W(endOfCentralDirectoryOffset,
                UintBytes(END_OF_CENTRAL_DIRECTORY_RECORD_SIGNATURE)),
              W(endOfCentralDirectoryOffset + 8, UintBytes(centralDirectoryCount)),
              W(endOfCentralDirectoryOffset + 10, UintBytes(centralDirectoryCount)),
              W(endOfCentralDirectoryOffset + 12, UintBytes(centralDirectorySize)),
              W(endOfCentralDirectoryOffset + 16,
                UintBytes(centralDirectoryOffsetWithDisk))>>),
        endOfCentralDirectoryOffset, comment, commentLength)

\* comment ? encode(comment) : undefined
EncodedComment(p) ==
    IF Has(p, "comment") /\ p["comment"] # <<>> THEN <<encode(p["comment"])>> ELSE <<>>

\* the tuple zip pushes for one flattened entry, at local header offset o
ZipData(o, entry) ==
    LET fileName == entry.name
        file == entry.file
        p == entry.p
        encodedFileName == encode(fileName)
        encodedComment == EncodedComment(p)
        compression == IF Has(p, "compression") THEN p["compression"] ELSE NoCompression
        compressed == compression.t = "tuple"
        fileData == IF compressed THEN Compress(compression.compress, file) ELSE file
        res == getExtraFieldLength(fileName, Maybe(p, "extra"))
    IN  [offset |-> o,
         fileData |-> fileData,
         unicode |-> \/ Len(encodedFileName) # Len(fileName)
                     \/ (encodedComment # <<>> /\ Len(p["comment"]) # Len(encodedComment[1])),
         flag |-> 0,
         compressionMethod |-> IF compressed THEN compressionNameToNumber[compression.name]
                               ELSE 0,
         mtime |-> Maybe(p, "mtime"),
         crc |-> crc32(file),
         compressedSize |-> Len(fileData),
         uncompressedSize |-> Len(file),
         fileName |-> encodedFileName,
         fileNameStr |-> fileName,
         extra |-> Maybe(p, "extra"),
         extraFieldLength |-> res.val,
         externalFileAttributes |-> Maybe(p, "attrs"),
         os |-> Maybe(p, "os"),
         comment |-> encodedComment]

\* files.push(m) and the two sums at the end of the body of the first loop
zipPush(acc, m) ==
    LET nameAndExtra == Len(m.fileName) + m.extraFieldLength
        commentLength == IF m.comment = <<>> THEN 0 ELSE Len(m.comment[1])
    IN  [acc EXCEPT !.files = Append(@, m),
                    !.o = @ + MIN_LOCAL_FILE_HEADER_SIZE + nameAndExtra + m.compressedSize,
                    !.tot = @ + 76 + 2 * nameAndExtra + commentLength + m.compressedSize]

\* the first loop of zip: the tuples, the offset o after the last file's data
\* and the total tot, or the Err for a name longer than 0xffff bytes
RECURSIVE zipFiles(_, _)
zipFiles(entries, acc) ==
    IF entries = <<>> THEN acc
    ELSE IF Len(encode(entries[1].name)) > 65535
    THEN createErr(fileNameTooLongError(entries[1].name))
    ELSE IF getExtraFieldLength(entries[1].name, Maybe(entries[1].p, "extra")).kind = "err"
    THEN getExtraFieldLength(entries[1].name, Maybe(entries[1].p, "extra"))
    ELSE zipFiles(Tail(entries), zipPush(acc, ZipData(acc.o, entries[1])))

\* the central directory file header of m at o, in the buffer that holds its
\* file data; its result is not looked at
zipWriteCentral(withData, o, m) == writeZipHeader(withData, o, m, <<m.offset>>)

\* the second loop of zip: both headers and the data of each file; o is the
\* offset of the next central directory file header
RECURSIVE zipWrite(_, _, _)
RECURSIVE zipWriteData(_, _, _)
RECURSIVE zipWriteNext(_, _, _, _)

\* the step of the loop after the central header cen of files[1]
zipWriteNext(files, cen, o, fileDataOffset) ==
    IF cen.kind # "ok" THEN cen
    ELSE zipWrite(Tail(files), cen.buffer,
                  o + 16 + fileDataOffset - files[1].offset
                    + (IF files[1].comment = <<>> THEN 0 ELSE Len(files[1].comment[1])))

\* the body of the loop after the local header res of files[1]
zipWriteData(files, res, o) ==
    IF res.kind # "ok" THEN res
    ELSE IF SetThrows(res.buffer, files[1].fileData, res.val) THEN Throw(RangeError)
    ELSE zipWriteNext(files,
                      zipWriteCentral(BufferSet(res.buffer, files[1].fileData, res.val),
                                      o, files[1]),
                      o, res.val)

zipWrite(files, out, o) ==
    IF files = <<>> THEN [kind |-> "ok", buffer |-> out, val |-> o]
    ELSE zipWriteData(files, writeZipHeader(out, files[1].offset, files[1], <<>>), o)

\* the end of zip: the end of central directory record
zipEnd(written, collected, encodedZipComment) ==
    IF written.kind # "ok" THEN written
    ELSE writeEndOfCentralDirectory(written.buffer, written.val, Len(collected.files),
                                    collected.tot - collected.o, collected.o,
                                    encodedZipComment,
                                    IF encodedZipComment = <<>> THEN 0
                                    ELSE Len(encodedZipComment[1]))

\* zip from the output buffer on
zipOut(collected, encodedZipComment) ==
    zipEnd(zipWrite(collected.files,
                    Zeros(collected.tot + MIN_END_OF_CENTRAL_DIRECTORY_SIZE
                            + (IF encodedZipComment = <<>> THEN 0
                               ELSE Len(encodedZipComment[1]))),
                    collected.o),
           collected, encodedZipComment)

\* zip after its first loop over the entries flatten yields
zipCollected(flattened, collected, options) ==
    IF collected.kind = "err" THEN collected
    ELSE IF flattened.thrown # NoError THEN Throw(flattened.thrown)
    ELSE zipOut(collected, EncodedComment(options))

\* zip over the entries flatten yields
zipFlattened(flattened, options) ==
    zipCollected(flattened,
                 zipFiles(flattened.out, [kind |-> "ok", files |-> <<>>, o |-> 0, tot |-> 0]),
                 options)

zip(tree, options) == zipFlattened(flatten(tree, options), options)

-----------------------------------------------------------------------------
(* unzip (unzip.ts).  The call scans for the end of central directory      *)
(* record and returns an Err or a generator; each next() of the generator  *)
(* runs its body up to the next yield or to its end.                       *)

\* a match on the two bytes "PK" alone
SignaturePrefix(buffer, e, signature) ==
    Byte(buffer, e) = signature % 256 /\ Byte(buffer, e + 1) = (signature \div 256) % 256

\* getUint32LE(data, e) == signature
SignatureFound(buffer, e, signature) == getUint32(buffer, e) = NumOfInt(signature)

\* 0x10016, the distance from the end past which the scan gives up
MaxScanDistance == 65558

\* the loop of unzip leaves e alone: the signature is there, or the body returns
ScanStops(buffer, e) ==
    \/ SignatureFound(buffer, e, END_OF_CENTRAL_DIRECTORY_RECORD_SIGNATURE)
    \/ e = 0
    \/ Len(buffer) - e > MaxScanDistance

\* The offset at which the loop stops, counting e down from length - 22.  An
\* offset below -3 reads undefined bytes only, so it stops the loop only by its
\* distance, which the offset length - 65559 is the first to exceed.
ScanEnd(buffer) ==
    LET first == Len(buffer) - MIN_END_OF_CENTRAL_DIRECTORY_SIZE
        last == Len(buffer) - (MaxScanDistance + 1)
    IN  IF ScanStops(buffer, first) THEN first
        ELSE SetMax({last} \cup {e \in Max(last, -3)..first : ScanStops(buffer, e)})

\* 0xffffffff
Uint32Max == <<255, 255, 255, 255>>

\* the generator before its first next()
Generator(e) ==
    [pos |-> "start", e |-> e, centralDirectoryCount |-> <<>>,
     centralDirectoryOffset |-> <<>>, isZip64 |-> FALSE, i |-> 0]

unzip(buffer, options) ==
    LET e == ScanEnd(buffer)
    IN  IF SignatureFound(buffer, e, END_OF_CENTRAL_DIRECTORY_RECORD_SIGNATURE)
        THEN [kind |-> "ok", val |-> Generator(e)]
        ELSE createErr(invalidZipDataError)

\* the generator's body up to its loop
Begin(buffer, g) ==
    LET e == g.e
        count16 == getUint16(buffer, e + 8)
        offset32 == getUint32(buffer, e + 16)
        maybeZip64 == offset32 = Uint32Max \/ count16 = 65535
        zip64EndOfCentralDirectoryRecordOffset == IndexOf(getUint32(buffer, e - 12))
        isZip64 == /\ maybeZip64
                   /\ SignatureFound(buffer, zip64EndOfCentralDirectoryRecordOffset,
                                     ZIP64_END_OF_CENTRAL_DIRECTORY_RECORD_SIGNATURE)
    IN  IF count16 = 0 THEN [g EXCEPT !.pos = "done"]
        ELSE [g EXCEPT
                 !.pos = "loop",
                 !.isZip64 = isZip64,
                 !.centralDirectoryCount =
                     IF isZip64
                     THEN getUint32(buffer, zip64EndOfCentralDirectoryRecordOffset + 32)
                     ELSE NumOfInt(count16),
                 !.centralDirectoryOffset =
                     IF isZip64
                     THEN getUint32(buffer, zip64EndOfCentralDirectoryRecordOffset + 48)
                     ELSE offset32]

getFileDataOffset(buffer, LocalFileHeaderOffset) ==
    NumPlus(LocalFileHeaderOffset,
            MIN_LOCAL_FILE_HEADER_SIZE
              + getUint16(buffer, IndexOf(LocalFileHeaderOffset) + 26)
              + getUint16(buffer, IndexOf(LocalFileHeaderOffset) + 28))

\* The loop of readZip64ExtraField: the offset of the record with id 1.  Past
\* the end of the buffer every id reads 0 and every step is 4, so the loop
\* never ends: found is FALSE.
RECURSIVE Zip64Record(_, _)
Zip64Record(buffer, extraFieldOffset) ==
    IF getUint16(buffer, extraFieldOffset) = 1 THEN [found |-> TRUE, at |-> extraFieldOffset]
    ELSE IF extraFieldOffset >= Len(buffer) THEN [found |-> FALSE, at |-> extraFieldOffset]
    ELSE Zip64Record(buffer, extraFieldOffset + 4 + getUint16(buffer, extraFieldOffset + 2))

readZip64ExtraField(buffer, extraFieldOffset) ==
    LET at == Zip64Record(buffer, extraFieldOffset).at
    IN  <<getUint64(buffer, at + 12), getUint64(buffer, at + 4), getUint64(buffer, at + 20)>>

readCentralDirectory(buffer, centralDirectoryOffset, isZip64) ==
    LET at == IndexOf(centralDirectoryOffset)
        fileNameLength == getUint16(buffer, at + 28)
        latin1 == (getUint16(buffer, at + 8) \div 2048) % 2 = 0
        fileName == decode(Slice(buffer, at + 46, at + 46 + fileNameLength), latin1)
        extraFieldOffset == NumPlus(centralDirectoryOffset, 46 + fileNameLength)
        compressedSize32 == getUint32(buffer, at + 20)
        sizes == IF isZip64 /\ compressedSize32 = Uint32Max
                 THEN readZip64ExtraField(buffer, IndexOf(extraFieldOffset))
                 ELSE <<compressedSize32, getUint32(buffer, at + 24), getUint32(buffer, at + 42)>>
    IN  [compressionMethod |-> getUint16(buffer, at + 10),
         compressedSize |-> sizes[1],
         uncompressedSize |-> sizes[2],
         fileName |-> fileName,
         nextOffset |-> NumPlus(extraFieldOffset,
                                getUint16(buffer, at + 30) + getUint16(buffer, at + 32)),
         localFileHeaderOffset |-> sizes[3]]

\* whether readCentralDirectory returns at all
CentralDirectoryReadable(buffer, centralDirectoryOffset, isZip64) ==
    LET at == IndexOf(centralDirectoryOffset)
    IN  isZip64 /\ getUint32(buffer, at + 20) = Uint32Max =>
            Zip64Record(buffer, at + 46 + getUint16(buffer, at + 28)).found

\* a filter that is not asked
AcceptsAll(flt, file) == TRUE

\* opts?.filter?.(file) ?? true, for the filters of the model
Accepts(flt, file) ==
    CASE flt = "none" -> TRUE
      [] flt = "stored" -> file.compression = 0
      [] flt = "sized" -> file.size # <<>>
      [] flt = "never" -> FALSE

\* The loop of the generator from its position g on, up to the next yield or
\* to the end: the position reached, the file yielded if any, and the local
\* headers read.
RECURSIVE Resume(_, _, _)
RECURSIVE ResumeFile(_, _, _, _, _)
RECURSIVE ResumeEntry(_, _, _, _)

\* the yield of the file at fileDataOffset
YieldFile(buffer, after, cd, fileDataOffset) ==
    [g |-> after,
     item |-> <<[data |-> Slice(buffer, IndexOf(fileDataOffset),
                                IndexOf(NumAdd(fileDataOffset, cd.compressedSize))),
                 name |-> cd.fileName, size |-> cd.compressedSize,
                 originalSize |-> cd.uncompressedSize,
                 compression |-> cd.compressionMethod]>>,
     reads |-> {cd.localFileHeaderOffset}]

\* the body of the loop from the filter on
ResumeFile(buffer, flt, after, cd, file) ==
    IF ~Accepts(flt, file) THEN Resume(buffer, flt, after)
    ELSE YieldFile(buffer, after, cd, getFileDataOffset(buffer, cd.localFileHeaderOffset))

\* the body of the loop for the central directory file header cd
ResumeEntry(buffer, flt, g, cd) ==
    ResumeFile(buffer, flt,
               [g EXCEPT !.centralDirectoryOffset = cd.nextOffset, !.i = @ + 1],
               cd,
               [name |-> cd.fileName, size |-> cd.compressedSize,
                originalSize |-> cd.uncompressedSize, compression |-> cd.compressionMethod])

Resume(buffer, flt, g) ==
    IF ~NumLess(NumOfInt(g.i), g.centralDirectoryCount)
    THEN [g |-> [g EXCEPT !.pos = "done"], item |-> <<>>, reads |-> {}]
    ELSE IF ~CentralDirectoryReadable(buffer, g.centralDirectoryOffset, g.isZip64)
    THEN [g |-> [g EXCEPT !.pos = "hang"], item |-> <<>>, reads |-> {}]
    ELSE ResumeEntry(buffer, flt, g,
                     readCentralDirectory(buffer, g.centralDirectoryOffset, g.isZip64))

\* the loop, entered from the start of the body or from a yield
Loop(buffer, flt, g) ==
    IF g.pos = "done" THEN [g |-> g, item |-> <<>>, reads |-> {}]
    ELSE Resume(buffer, flt, g)

\* one next() of the generator
Next1(buffer, flt, g) ==
    IF g.pos = "start" THEN Loop(buffer, flt, Begin(buffer, g))
    ELSE Resume(buffer, flt, g)

-----------------------------------------------------------------------------
(* The flattener on its own: a tree is drawn, flatten is called once.      *)

\* sequences of at most n elements of S
SeqsUpTo(S, n) == UNION {[1..m -> S] : m \in 0..n}

\* a JS object holds a key once
DistinctKeys(obj) == \A i, j \in 1..Len(obj) : i # j => obj[i][1] # obj[j][1]

\* the largest number of keys of a drawn tree
MaxKeys == 2

FileOne == U8(<<1>>)

\* "a", "b", "1", "a/b", "a/", ""
FlattenKeys == {<<97>>, <<98>>, <<49>>, <<97, 47, 98>>, <<97, 47>>, <<>>}

FlattenValues ==
    { FileOne,
      Dir(<<>>),
      Dir(<< <<<<98>>, FileOne>> >>),
      Dir(<< <<<<98>>, FileOne>>, <<<<49>>, U8(<<>>)>> >>),
      Arr(FileOne, [os |-> 3]),
      Arr(Dir(<< <<<<98>>, FileOne>> >>), [compression |-> ByName("deflate")]),
      Arr(Dir(<< <<<<98>>, Arr(FileOne, [os |-> 3])>> >>),
          [compression |-> ByName("deflate"), os |-> 0]) }

FlattenTrees ==
    {tree \in SeqsUpTo(FlattenKeys \X FlattenValues, MaxKeys) : DistinctKeys(tree)}

\* the compresser registered for the tests of the flattener
FlattenOptions == {EmptyObject, [compressionMethods |-> [deflate |-> "deflate"]]}

\* a Date: the fields its getters return (getMonth counts from 0)
Date(year, month, date, hours, minutes, seconds) ==
    [year |-> year, month |-> month, date |-> date,
     hours |-> hours, minutes |-> minutes, seconds |-> seconds]

\* the wall clock of the runs
Today == Date(2024, 4, 17, 12, 34, 57)

InitFlatten ==
    /\ data \in FlattenTrees
    /\ opts \in FlattenOptions
    /\ now = Today
    /\ flat = NotCalled
    /\ zipped = NotCalled
    /\ input = <<>>
    /\ filter = "none"
    /\ unz = NotCalled
    /\ yielded = <<>>
    /\ localReads = {}

\* [...flatten(data, opts)], or the Error it throws on the way
CallFlatten ==
    /\ ~Called(flat)
    /\ flat' = flatten(data, opts)
    /\ UNCHANGED <<data, opts, now, zipped, input, filter, unz, yielded, localReads>>

NextFlatten == CallFlatten

SpecFlatten == InitFlatten /\ [][NextFlatten]_vars

-----------------------------------------------------------------------------
(* The operations on the shared state.                                     *)

\* the filters a caller of unzip passes: none, or one of three predicates
Filters == {"none", "stored", "sized", "never"}

\* zip(data, opts)
CallZip ==
    /\ ~Called(zipped)
    /\ zipped' = zip(data, opts)
    /\ UNCHANGED <<data, opts, now, flat, input, filter, unz, yielded, localReads>>

\* unzip(buffer, { filter })
CallUnzip(buffer) ==
    /\ ~Called(unz)
    /\ \E flt \in Filters :
          /\ filter' = flt
          /\ unz' = unzip(buffer, flt)
    /\ input' = buffer
    /\ UNCHANGED <<data, opts, now, flat, zipped, yielded, localReads>>

\* the archive zip returned goes to unzip
UnzipArchive == zipped.kind = "ok" /\ CallUnzip(zipped.val)

\* a buffer from elsewhere goes to unzip
UnzipBuffer == ~Called(zipped) /\ CallUnzip(input)

\* what one next() leaves: the generator's position, the file it yielded
Resumed(r) ==
    /\ unz' = [unz EXCEPT !.val = r.g]
    /\ yielded' = yielded \o r.item
    /\ localReads' = localReads \cup r.reads

\* one next() of the generator unzip returned
UnzipNext ==
    /\ unz.kind = "ok"
    /\ unz.val.pos \in {"start", "loop"}
    /\ Resumed(Next1(input, filter, unz.val))
    /\ UNCHANGED <<data, opts, now, flat, zipped, input, filter>>

-----------------------------------------------------------------------------
(* Writing an archive and reading it back.                                 *)

\* the largest number of keys of a drawn tree
MaxEntries == 2

\* "HI"
Payload == <<72, 73>>

\* 0o644 << 16
UnixMode == 27525120

Attributes ==
    { [mtime |-> Date(1980, 0, 1, 0, 0, 0)],
      [mtime |-> Date(2099, 11, 31, 23, 59, 59)],
      [mtime |-> Date(1979, 11, 31, 23, 59, 59)],
      [mtime |-> Date(2100, 0, 1, 0, 0, 0)],
      [comment |-> <<99>>],
      [extra |-> (1 :> <<9>>), os |-> 3, attrs |-> UnixMode],
      [compression |-> ByName("deflate")],
      [compression |-> ByName("lzma")] }

\* keys "a" and "b" with a file, alone or with attributes; "1"; "é"; "d/x";
\* the map "d" with a file "x", or with a file "y" dated 2100
ZipEntries ==
    ({<<97>>} \X ({U8(Payload)} \cup {Arr(U8(Payload), a) : a \in Attributes}))
    \cup {<<<<98>>, U8(<<>>)>>,
          <<<<98>>, Arr(U8(Payload), [mtime |-> Date(1979, 11, 31, 23, 59, 59)])>>,
          <<<<98>>, Arr(U8(Payload), [comment |-> <<99>>])>>,
          <<<<98>>, Arr(U8(Payload), [compression |-> ByName("deflate")])>>,
          <<<<49>>, U8(Payload)>>,
          <<<<233>>, U8(Payload)>>,
          <<<<100, 47, 120>>, U8(Payload)>>,
          <<<<100>>, Dir(<< <<<<120>>, U8(Payload)>> >>)>>,
          <<<<100>>, Dir(<< <<<<121>>, Arr(U8(Payload), [mtime |-> Date(2100, 0, 1, 0, 0, 0)])>> >>)>>}

\* { "file1.txt": HELLO, "file2.txt": HELLO }
Hello == <<72, 69, 76, 76, 79>>

HelloTree ==
    << <<<<102, 105, 108, 101, 49, 46, 116, 120, 116>>, U8(Hello)>>,
       <<<<102, 105, 108, 101, 50, 46, 116, 120, 116>>, U8(Hello)>> >>

ZipTrees == {tree \in SeqsUpTo(ZipEntries, MaxEntries) : DistinctKeys(tree)} \cup {HelloTree}

\* no options; a registry for deflate only; a registry and an archive comment
ZipOptionsChoices ==
    { EmptyObject,
      [compressionMethods |-> [deflate |-> "deflate"]],
      [compressionMethods |-> [deflate |-> "deflate", lzma |-> "deflate"]],
      [comment |-> <<122>>] }

Init ==
    /\ data \in ZipTrees
    /\ opts \in ZipOptionsChoices
    /\ now = Today
    /\ flat = NotCalled
    /\ zipped = NotCalled
    /\ input = <<>>
    /\ filter = "none"
    /\ unz = NotCalled
    /\ yielded = <<>>
    /\ localReads = {}

Next == CallZip \/ UnzipArchive \/ UnzipNext

Spec == Init /\ [][Next]_vars

-----------------------------------------------------------------------------
(* Reading a buffer that did not come from zip: an end of central          *)
(* directory record, intact or not, with bytes before and after it.        *)

\* the largest number of bytes put before and after a record
MaxPad == 2

\* "PK\5\6", "PK\5\7" and "PK\1\2"
Signatures == {<<80, 75, 5, 6>>, <<80, 75, 5, 7>>, <<80, 75, 1, 2>>}

\* an end of central directory record of an archive without entries
Record(signature) == signature \o Zeros(MIN_END_OF_CENTRAL_DIRECTORY_SIZE - 4)

\* lengths of a comment that put the record at the edge of the scan
FarTails == {MaxScanDistance - 22, MaxScanDistance - 21, MaxScanDistance - 20}

\* "PK: This is not a zip file."
NotAZipFile ==
    <<80, 75, 58, 32, 84, 104, 105, 115, 32, 105, 115, 32, 110, 111, 116, 32,
      97, 32, 122, 105, 112, 32, 102, 105, 108, 101, 46>>

ScanBuffers ==
    {Zeros(p) \o Record(s) \o Zeros(t) : p \in 0..MaxPad, s \in Signatures, t \in 0..MaxPad}
    \cup {Zeros(p) \o Record(<<80, 75, 5, 6>>) \o Zeros(t) : p \in {0, MaxPad}, t \in FarTails}
    \cup {SubSeq(Record(<<80, 75, 5, 6>>), 1, n) : n \in 0..(MIN_END_OF_CENTRAL_DIRECTORY_SIZE - 1)}
    \cup {Record(<<80, 75, 5, 6>>) \o Record(<<80, 75, 5, 6>>), NotAZipFile}

InitScan ==
    /\ data = <<>>
    /\ opts = EmptyObject
    /\ now = Today
    /\ flat = NotCalled
    /\ zipped = NotCalled
    /\ input \in ScanBuffers
    /\ filter = "none"
    /\ unz = NotCalled
    /\ yielded = <<>>
    /\ localReads = {}

NextScan == UnzipBuffer \/ UnzipNext

SpecScan == InitScan /\ [][NextScan]_vars

-----------------------------------------------------------------------------
(* Writing entries at the limits of the 16-bit length fields.              *)

\* how far past the limit the drawn names go
MaxOver == 1

\* a name of chars characters: the characters of lead, then "a"s
LongName(lead, chars) == lead \o [i \in 1..(chars - Len(lead)) |-> 97]

\* nothing (1 byte a character), "é" (one of 2 bytes), "ア" (one of 3 bytes)
\* and 32767 times "é": the lead, and the bytes it adds to the characters
Leads == {<<<<>>, 0>>, <<<<233>>, 1>>, <<<<12450>>, 2>>, <<[i \in 1..32767 |-> 233], 32767>>}

LimitFiles ==
    {<<LongName(lead[1], 65535 + d - lead[2]), U8(Payload)>> :
        lead \in Leads, d \in (-1)..MaxOver}
    \cup {<<<<101>>, Arr(U8(Payload), [extra |-> (1 :> Zeros(65535 + d))])>> : d \in 0..MaxOver}

Small == <<<<115>>, U8(Payload)>>

LimitTrees ==
    UNION {{<<f>>, <<Small, f>>, <<f, Small>>} : f \in LimitFiles}

LimitOptions == {EmptyObject, [mtime |-> Date(2100, 0, 1, 0, 0, 0)]}

(* The long strings and arrays are kept in the state folded into rows of   *)
(* Chunk elements; zip is handed the tree unfolded.                        *)

Chunk == 256

Fold(seq) ==
    [i \in 1..((Len(seq) + Chunk - 1) \div Chunk) |->
        SubSeq(seq, (i - 1) * Chunk + 1, Min(i * Chunk, Len(seq)))]

RECURSIVE Join(_, _, _)
Join(rows, lo, hi) ==
    IF lo > hi THEN <<>>
    ELSE IF lo = hi THEN rows[lo]
    ELSE Join(rows, lo, (lo + hi) \div 2) \o Join(rows, (lo + hi) \div 2 + 1, hi)

Unfold(rows) == Join(rows, 1, Len(rows))

\* a sequence folded, or a folded one unfolded
Folded(fold, seq) == IF fold THEN Fold(seq) ELSE Unfold(seq)

\* a file with its array and its extra payloads folded, or unfolded
FoldedFile(fold, value) ==
    IF value.t = "u8" THEN U8(Folded(fold, value.b))
    ELSE Arr(U8(Folded(fold, value.v.b)),
             [k \in DOMAIN value.a |->
                 IF k = "extra" THEN [id \in DOMAIN value.a[k] |-> Folded(fold, value.a[k][id])]
                 ELSE value.a[k]])

FoldTree(tree) == [i \in 1..Len(tree) |-> <<Fold(tree[i][1]), FoldedFile(TRUE, tree[i][2])>>]
UnfoldTree(tree) == [i \in 1..Len(tree) |-> <<Unfold(tree[i][1]), FoldedFile(FALSE, tree[i][2])>>]

\* the result of zip with its archive, or the name its Err holds, folded
FoldResult(r) ==
    IF r.kind = "ok" THEN [r EXCEPT !.val = Fold(@)]
    ELSE IF r.kind = "err" THEN [r EXCEPT !.err.name = Fold(@)]
    ELSE r

\* zip(data, opts) for the tree the state holds folded
CallZipFolded ==
    /\ ~Called(zipped)
    /\ zipped' = FoldResult(zip(UnfoldTree(data), opts))
    /\ UNCHANGED <<data, opts, now, flat, input, filter, unz, yielded, localReads>>

InitLimits ==
    /\ data \in {FoldTree(tree) : tree \in LimitTrees}
    /\ opts \in LimitOptions
    /\ now = Today
    /\ flat = NotCalled
    /\ zipped = NotCalled
    /\ input = <<>>
    /\ filter = "none"
    /\ unz = NotCalled
    /\ yielded = <<>>
    /\ localReads = {}

NextLimits == CallZipFolded

SpecLimits == InitLimits /\ [][NextLimits]_vars

-----------------------------------------------------------------------------
(* What a tree denotes, read off the tree itself.                          *)

\* the node behind a [node, attributes] pair
Node(value) == IF value.t = "arr" THEN value.v ELSE value

\* the prefixes of the key k that end in a '/', each under path
SlashPrefixes(path, k) == {path \o SubSeq(k, 1, i) : i \in {j \in 1..Len(k) : k[j] = Slash}}

\* the paths of the directories of the tree: nested maps, and the directories
\* implied by a '/' inside a key
RECURSIVE DirsOf(_, _)
DirsOf(directory, path) ==
    UNION { SlashPrefixes(path, directory[i][1])
            \cup (IF Node(directory[i][2]).t = "dir"
                  THEN {path \o directory[i][1] \o <<Slash>>}
                       \cup DirsOf(Node(directory[i][2]).d, path \o directory[i][1] \o <<Slash>>)
                  ELSE {})
          : i \in 1..Len(directory) }

\* the paths of the files of the tree
RECURSIVE FilesOf(_, _)
FilesOf(directory, path) ==
    UNION { IF Node(directory[i][2]).t = "dir"
            THEN FilesOf(Node(directory[i][2]).d, path \o directory[i][1] \o <<Slash>>)
            ELSE {path \o directory[i][1]}
          : i \in 1..Len(directory) }

\* the first component of a key, and the entries located at or under it
Component(k) == IF indexOf(k, Slash) > -1 THEN SubSeq(k, 1, indexOf(k, Slash)) ELSE k

Under(name, c) ==
    \/ name = c
    \/ Len(name) > Len(c) /\ SubSeq(name, 1, Len(c) + 1) = c \o <<Slash>>

Positions(out, c) == {i \in 1..Len(out) : Under(out[i].name, c)}


\* key i comes before key j when the object is enumerated: array indices
\* ascending, then the other keys as inserted
EnumeratedBefore(obj, i, j) ==
    LET ki == obj[i][1]
        kj == obj[j][1]
    IN  \/ IsArrayIndex(ki) /\ IsArrayIndex(kj) /\ KeyNumber(ki) < KeyNumber(kj)
        \/ IsArrayIndex(ki) /\ ~IsArrayIndex(kj)
        \/ ~IsArrayIndex(ki) /\ ~IsArrayIndex(kj) /\ i < j

InsertedBefore(obj, i, j) == i < j

\* every directory above a yielded entry was yielded before it, empty
DirectoriesFirst(out) ==
    \A i \in 1..Len(out) :
        /\ out[i].name # <<>> /\ out[i].name[Len(out[i].name)] = Slash => out[i].file = empty
        /\ \A d \in SlashPrefixes(<<>>, out[i].name) :
              d # out[i].name =>
                 \E h \in 1..(i - 1) : out[h].name = d /\ out[h].file = empty

\* each directory of the tree has exactly one entry
EachDirectoryOnce(tree, out) ==
    \A d \in DirsOf(tree, <<>>) :
        Cardinality({i \in 1..Len(out) : out[i].name = d /\ out[i].file = empty}) = 1

-----------------------------------------------------------------------------
(* Writing and reading back.                                               *)

\* the entry was not handed to a compresser
Uncompressed(entry) ==
    ~(Has(entry.p, "compression") /\ entry.p["compression"].t = "tuple")

\* the files the generator yielded are the flattened entries, name and bytes,
\* one for one up to the number yielded
YieldedAre(entries) ==
    /\ Len(yielded) <= Len(entries)
    /\ \A i \in 1..Len(yielded) :
          /\ yielded[i].name = entries[i].name
          /\ yielded[i].data = entries[i].file

\* C1 (as stated): when zip has made an archive of a tree whose entries use no
\* compression, unzip of that archive, without a filter, returns a generator
\* that yields the entries of flatten(tree) in order, each with its name and
\* its bytes, and then ends.
C1_RoundTrip ==
    /\ Called(unz) /\ filter = "none"
    /\ \A i \in 1..Len(flatten(data, opts).out) : Uncompressed(flatten(data, opts).out[i])
    => /\ unz.kind = "ok"
       /\ YieldedAre(flatten(data, opts).out)
       /\ unz.val.pos = "done" => Len(yielded) = Len(flatten(data, opts).out)

\* C3 (as stated): the data of a yielded file is compressed_size bytes long
\* when its method is 0 and uncompressed_size bytes long (the inflated
\* payload) when its method is 8, and no file of another method is yielded
\* as data.
C3_Extraction ==
    \A i \in 1..Len(yielded) :
        /\ yielded[i].compression = 0 => NumOfInt(Len(yielded[i].data)) = yielded[i].size
        /\ yielded[i].compression = 8 => NumOfInt(Len(yielded[i].data)) = yielded[i].originalSize
        /\ yielded[i].compression \in {0, 8}

\* the central directory of an archive zip wrote, walked record by record
RECURSIVE Walk(_, _, _)
Walk(buffer, offset, n) ==
    IF n = 0 THEN <<>>
    ELSE <<readCentralDirectory(buffer, offset, FALSE)>>
            \o Walk(buffer, readCentralDirectory(buffer, offset, FALSE).nextOffset, n - 1)

Directory(buffer) ==
    Walk(buffer, getUint32(buffer, ScanEnd(buffer) + 16), getUint16(buffer, ScanEnd(buffer) + 8))

\* what the caller's predicate answers for a central directory record
Holds(flt, cd) ==
    \/ flt = "none"
    \/ flt = "stored" /\ cd.compressionMethod = 0
    \/ flt = "sized" /\ cd.compressedSize # <<>>

Wanted(buffer, flt) == SelectSeq(Directory(buffer), LAMBDA cd : Holds(flt, cd))

\* C4: the files the generator has yielded are, in central directory order,
\* the records the filter accepts (all of them without a filter), each with
\* the name, sizes, method and data its own record gives, whatever was
\* rejected before it; the local headers read are those of the yielded files
\* only; and when the generator ends, every accepted record has been yielded.
C4_FilterSelects ==
    Called(unz) /\ unz.kind = "ok" =>
        /\ Len(yielded) <= Len(Wanted(input, filter))
        /\ \A i \in 1..Len(yielded) :
              LET cd == Wanted(input, filter)[i]
                  at == getFileDataOffset(input, cd.localFileHeaderOffset)
              IN  /\ yielded[i].name = cd.fileName
                  /\ yielded[i].size = cd.compressedSize
                  /\ yielded[i].originalSize = cd.uncompressedSize
                  /\ yielded[i].compression = cd.compressionMethod
                  /\ yielded[i].data = Slice(input, IndexOf(at),
                                             IndexOf(NumAdd(at, cd.compressedSize)))
        /\ localReads = {Wanted(input, filter)[i].localFileHeaderOffset : i \in 1..Len(yielded)}
        /\ unz.val.pos = "done" => Len(yielded) = Len(Wanted(input, filter))

\* C4 (witness): a generator that has ended after yielding a file whose
\* record comes after a record the filter rejected
C4_Witness ==
    /\ Called(unz) /\ unz.kind = "ok" /\ unz.val.pos = "done"
    /\ filter = "sized"
    /\ Len(yielded) = 1
    /\ Len(Directory(input)) = 2
    /\ ~Holds(filter, Directory(input)[1])
    /\ yielded[1].name = Directory(input)[2].fileName
    /\ yielded[1].data = Payload

\* C5 (as stated): zip returns a Result for every input: it does not throw.
C5_NeverThrows == Called(zipped) => zipped.kind \in {"ok", "err"}

\* the date zip stamps on an entry, and whether the header can hold its year
DateOf(entry) == IF Has(entry.p, "mtime") THEN entry.p["mtime"] ELSE now
Representable(entry) == DateOf(entry).year >= 1980 /\ DateOf(entry).year <= 2099

\* the length of the UTF-8 encoding of a string
RECURSIVE Utf8Length(_)
Utf8Length(str) ==
    IF Len(str) = 0 THEN 0
    ELSE IF Len(str) = 1 THEN (IF str[1] < 128 THEN 1 ELSE IF str[1] < 2048 THEN 2 ELSE 3)
    ELSE Utf8Length(SubSeq(str, 1, Len(str) \div 2))
           + Utf8Length(SubSeq(str, Len(str) \div 2 + 1, Len(str)))

NamesFit(entries) == \A i \in 1..Len(entries) : Utf8Length(entries[i].name) <= 65535

\* a comment, of the archive or of an entry (C1 and C5 are about those)
Commented(entries) ==
    \/ Has(opts, "comment")
    \/ \E i \in 1..Len(entries) : Has(entries[i].p, "comment")

\* C7: for a tree that flatten accepts and whose names fit, zip returns the
\* Err InvalidDate holding the name and the date of the first flattened entry
\* whose year is outside 1980..2099, wherever that entry is in the tree, and
\* no archive; when the year of every entry is in 1980..2099 it returns no
\* Err, and it returns the archive if in addition nothing carries a comment.
C7_DateRange ==
    Called(zipped) /\ flatten(data, opts).thrown = NoError /\ NamesFit(flatten(data, opts).out) =>
        LET entries == flatten(data, opts).out
            bad == {i \in 1..Len(entries) : ~Representable(entries[i])}
        IN  IF bad = {}
            THEN /\ zipped.kind # "err"
                 /\ ~Commented(entries) => zipped.kind = "ok"
            ELSE /\ zipped.kind = "err"
                 /\ zipped.err = [code |-> InvalidDate,
                                  name |-> entries[SetMin(bad)].name,
                                  mtime |-> DateOf(entries[SetMin(bad)])]

\* C7 (witness): an Err InvalidDate for an entry of year 2100 that is the
\* third entry flattened, inside a nested map, after entries dated 1980 and
\* the wall clock's year
C7_Witness ==
    /\ Called(zipped) /\ zipped.kind = "err"
    /\ zipped.err.code = InvalidDate
    /\ zipped.err.mtime.year = 2100
    /\ Len(flatten(data, opts).out) = 3
    /\ zipped.err.name = flatten(data, opts).out[3].name
    /\ Has(flatten(data, opts).out[1].p, "mtime")
    /\ flatten(data, opts).out[1].p["mtime"].year = 1980

-----------------------------------------------------------------------------
(* Locating the end of central directory record.                           *)

\* the offsets at which the scan of unzip compares the signature
ScanWindow(buffer) ==
    {e \in 0..(Len(buffer) - MIN_END_OF_CENTRAL_DIRECTORY_SIZE) :
        Len(buffer) - e <= MaxScanDistance + 1}

\* the four bytes 50 4B 05 06 at offset e
SignatureAt(buffer, e) ==
    /\ Byte(buffer, e) = 80 /\ Byte(buffer, e + 1) = 75
    /\ Byte(buffer, e + 2) = 5 /\ Byte(buffer, e + 3) = 6

-----------------------------------------------------------------------------
(* The limits of the 16-bit length fields.                                 *)

\* the entries of the tree the state holds folded
LimitEntries == flatten(UnfoldTree(data), opts).out

\* C6 (as stated): when some entry has an extra-field payload longer than
\* 65535 bytes, zip returns the Err ExtraFieldTooLong and no archive.
C6_ExtraFieldTooLong ==
    /\ Called(zipped)
    /\ \E i \in 1..Len(LimitEntries) :
          LET p == LimitEntries[i].p
          IN  Has(p, "extra") /\ \E k \in DOMAIN p["extra"] : Len(p["extra"][k]) > 65535
    => zipped.kind = "err" /\ zipped.err.code = ExtraFieldTooLong

\* C8: zip returns the Err FilenameTooLong, holding the name, for the first
\* flattened entry whose name is longer than 65535 bytes once encoded in
\* UTF-8, however many characters it has; when every encoded name is at most
\* 65535 bytes long, zip returns no such Err, and it returns the archive if
\* every date is in range.
C8_FilenameLimit ==
    Called(zipped) =>
        LET long == {i \in 1..Len(LimitEntries) : Utf8Length(LimitEntries[i].name) > 65535}
        IN  IF long # {}
            THEN zipped = [kind |-> "err",
                           err |-> [code |-> FilenameTooLong,
                                    name |-> Fold(LimitEntries[SetMin(long)].name)]]
            ELSE /\ zipped.kind = "err" => zipped.err.code # FilenameTooLong
                 /\ (\A i \in 1..Len(LimitEntries) : Representable(LimitEntries[i]))
                       => zipped.kind = "ok"

\* C8 (witness): an archive for a tree with a name of exactly 65535 encoded
\* bytes and fewer characters
C8_Witness ==
    /\ Called(zipped) /\ zipped.kind = "ok"
    /\ \E i \in 1..Len(LimitEntries) :
          /\ Utf8Length(LimitEntries[i].name) = 65535
          /\ Len(LimitEntries[i].name) < 65535

-----------------------------------------------------------------------------
(* The options of an entry, read off the tree.                             *)

\* a compression given by name, resolved against the registry of options
Resolved(value, options) ==
    IF value.t = "name" THEN ByTuple(value.name, Compresser(options, value.name)) ELSE value

\* inherited, overridden key by key by the attributes attrs
Overridden(inherited, attrs, options) ==
    [key \in DOMAIN inherited \cup DOMAIN attrs |->
        IF key \in DOMAIN attrs
        THEN (IF key = "compression" THEN Resolved(attrs[key], options) ELSE attrs[key])
        ELSE inherited[key]]

\* the attributes of a [node, attributes] pair, none for a bare node
AttributesOf(value) == IF value.t = "arr" THEN value.a ELSE EmptyObject

\* the files of the tree, each with the options in effect for it
RECURSIVE OptionsOf(_, _, _, _)
OptionsOf(directory, inherited, path, options) ==
    UNION { IF Node(directory[i][2]).t = "dir"
            THEN OptionsOf(Node(directory[i][2]).d,
                           Overridden(inherited, AttributesOf(directory[i][2]), options),
                           path \o directory[i][1] \o <<Slash>>, options)
            ELSE {<<path \o directory[i][1],
                    Overridden(inherited, AttributesOf(directory[i][2]), options)>>}
          : i \in 1..Len(directory) }

\* the options a reader of op sees: a key that holds undefined reads as a key
\* that is absent
Seen(op) ==
    [key \in {x \in DOMAIN op : x = "compression" => op[x] # NoCompression} |-> op[key]]

\* C11: once flatten has run to completion, every file entry carries the
\* global options overridden key by key by the attributes of the directories
\* around it, outermost first, and then by its own attributes, compression
\* included, and every directory entry carries the empty options.
C11_EffectiveOptions ==
    Called(flat) /\ flat.thrown = NoError =>
        \A i \in 1..Len(flat.out) :
            IF flat.out[i].name \in DirsOf(data, <<>>) /\ flat.out[i].file = empty
                 /\ flat.out[i].name \notin FilesOf(data, <<>>)
            THEN flat.out[i].p = EmptyObject
            ELSE <<flat.out[i].name, Seen(flat.out[i].p)>> \in OptionsOf(data, opts, <<>>, opts)

-----------------------------------------------------------------------------
(* The language encoding flag.                                             *)

\* the offsets of the n central directory file headers from offset on
RECURSIVE HeadersFrom(_, _, _)
HeadersFrom(buffer, offset, n) ==
    IF n = 0 THEN <<>>
    ELSE <<IndexOf(offset)>>
            \o HeadersFrom(buffer, readCentralDirectory(buffer, offset, FALSE).nextOffset, n - 1)

\* the offsets of the central directory file headers the end record announces
Headers(buffer) ==
    HeadersFrom(buffer, getUint32(buffer, ScanEnd(buffer) + 16),
                getUint16(buffer, ScanEnd(buffer) + 8))

\* bit 11 of the 16-bit flag stored at offset at
Bit11(buffer, at) == (getUint16(buffer, at) \div 2048) % 2 = 1

IsAscii(str) == \A i \in 1..Len(str) : str[i] < 128

\* the entry's comment, "" when it has none
CommentOf(entry) == IF Has(entry.p, "comment") THEN entry.p["comment"] ELSE <<>>

\* the i-th record of the archive and its local header are flagged, or are
\* not, and the record's name is name
Flagged(buffer, i, flag, name) ==
    /\ Bit11(buffer, Headers(buffer)[i] + 8) = flag
    /\ Bit11(buffer, IndexOf(Directory(buffer)[i].localFileHeaderOffset) + 6) = flag
    /\ Directory(buffer)[i].fileName = name

\* C12 (as stated): unzip reads every archive zip returns; an entry whose name
\* holds a non-ASCII character has bit 11 set in its local and in its central
\* header, an entry whose name and comment are ASCII has it clear in both, and
\* in both cases the name read back, and yielded, is the key as given.
C12_UnicodeFlag ==
    Called(unz) /\ filter = "none" =>
        /\ unz.kind = "ok"
        /\ Len(Headers(input)) = Len(flatten(data, opts).out)
        /\ \A i \in 1..Len(flatten(data, opts).out) :
              LET entry == flatten(data, opts).out[i]
              IN  /\ ~IsAscii(entry.name) => Flagged(input, i, TRUE, entry.name)
                  /\ IsAscii(entry.name) /\ IsAscii(CommentOf(entry)) =>
                        Flagged(input, i, FALSE, entry.name)
                  /\ i <= Len(yielded) /\ (~IsAscii(entry.name) \/ IsAscii(CommentOf(entry))) =>
                        yielded[i].name = entry.name

-----------------------------------------------------------------------------
(* The empty archive.                                                      *)

\* C13: zip of the empty tree, with no archive comment, returns the 22 bytes
\* of an end of central directory record: the signature 0x06054b50 and then
\* zeros only; unzip of these bytes returns a generator, and the generator
\* ends at its first next() without a file.
C13_EmptyArchive ==
    data = <<>> /\ ~Has(opts, "comment") =>
        /\ Called(zipped) => zipped = [kind |-> "ok", val |-> <<80, 75, 5, 6>> \o Zeros(18)]
        /\ Called(unz) =>
              /\ unz.kind = "ok"
              /\ unz.val.pos \in {"start", "done"}
              /\ yielded = <<>>
              /\ localReads = {}

\* C13 (witness): the generator of the empty archive has ended
C13_Witness ==
    /\ data = <<>> /\ ~Has(opts, "comment")
    /\ Called(unz) /\ unz.kind = "ok" /\ unz.val.pos = "done"
    /\ Len(input) = 22

-----------------------------------------------------------------------------
(* The end of central directory record of archives with many entries.      *)
(* The state holds the number of files of the tree and the lengths its     *)
(* files share; the buffer the step is run on is the part of out from the  *)
(* end of the last central directory file header on.                       *)

\* the numbers of files around one byte, two bytes and past two bytes
EndCounts == {c + d : c \in {1, 256, 65536}, d \in (-1)..MaxOver}

\* names of 3 bytes and more: there are enough of them to name the files
EndInputs ==
    {[files |-> n, name |-> l, size |-> p] :
        n \in EndCounts, l \in 3..(2 + MaxKeys), p \in 0..MaxPad}

\* what the first loop of zip leaves for d.files files whose encoded names are
\* d.name bytes and whose data are d.size bytes long, without extra fields
\* and comments: every file adds the same to o and to tot
Collected(d) ==
    [kind |-> "ok",
     files |-> [i \in 1..d.files |-> i],
     o |-> d.files * (MIN_LOCAL_FILE_HEADER_SIZE + d.name + d.size),
     tot |-> d.files * (76 + 2 * d.name + d.size)]

\* the call of writeEndOfCentralDirectory that ends zip
CallZipEnd ==
    /\ ~Called(zipped)
    /\ zipped' = zipEnd([kind |-> "ok",
                         buffer |-> Zeros(MIN_END_OF_CENTRAL_DIRECTORY_SIZE
                                            + (IF EncodedComment(opts) = <<>> THEN 0
                                               ELSE Len(EncodedComment(opts)[1]))),
                         val |-> 0],
                        Collected(data), EncodedComment(opts))
    /\ UNCHANGED <<data, opts, now, flat, input, filter, unz, yielded, localReads>>

InitEnd ==
    /\ data \in EndInputs
    /\ opts \in {EmptyObject, [comment |-> <<>>], [comment |-> <<122>>]}
    /\ now = Today
    /\ flat = NotCalled
    /\ zipped = NotCalled
    /\ input = <<>>
    /\ filter = "none"
    /\ unz = NotCalled
    /\ yielded = <<>>
    /\ localReads = {}

NextEnd == CallZipEnd

SpecEnd == InitEnd /\ [][NextEnd]_vars

\* C14 (as stated): when the tree has more files than the 16-bit fields of the
\* end of central directory record hold, zip returns an Err or writes 0xffff
\* into both fields (the ZIP64 records then hold the number).
C14_Zip64OrError ==
    Called(zipped) /\ data.files > 65535 =>
        \/ zipped.kind = "err"
        \/ /\ zipped.kind = "ok"
           /\ getUint16(zipped.val, 8) = 65535
           /\ getUint16(zipped.val, 10) = 65535

-----------------------------------------------------------------------------
(* Adler-32 (alder32.ts) and the zlib wrapper (zlib.ts) around deflate at  *)
(* level 0.                                                                *)

\* a += byte, b += a
alder32Add(sums, byte) == [a |-> sums.a + byte, b |-> sums.b + sums.a + byte]

\* a and b after the bytes dat[1..n]
RECURSIVE alder32Sums(_, _)
alder32Sums(dat, n) ==
    IF n = 0 THEN [a |-> 1, b |-> 0] ELSE alder32Add(alder32Sums(dat, n - 1), dat[n])

\* a %= 65521, b %= 65521, (b << 16) | a: a signed 32-bit word
alder32Word(sums) == Or32(Shl32(sums.b % 65521, 16), sums.a % 65521)

alder32(dat) == alder32Word(alder32Sums(dat, Len(dat)))

\* opt.dictionary.subarray(-32768), or the empty array without a dictionary
dictionaryOf(opt) ==
    IF Has(opt, "dictionary")
    THEN SubSeq(opt["dictionary"], Max(1, Len(opt["dictionary"]) - 32767),
                Len(opt["dictionary"]))
    ELSE <<>>

\* dopt for opt.level = 0: pre bytes, the stored blocks of the data after
\* the dictionary, post bytes
dopt(dat, opt, pre, post) ==
    Zeros(pre) \o dfltStored(dictionaryOf(opt) \o dat, Len(dictionaryOf(opt))) \o Zeros(post)

\* c[1] after  c[1] = (fl << 6) | (o.dictionary && 32)  and
\* c[1] |= 31 - ((c[0] << 8) | c[1]) % 31,  with c[0] = 120
zlhFlags(c1) == Or32(c1, 31 - ((120 * 256 + c1) % 31)) % 256

zlhLevel(lv) == IF lv = 0 THEN 0 ELSE IF lv < 6 THEN 1 ELSE IF lv = 9 THEN 3 ELSE 2

\* the zlib header written into c
zlh(c, o) ==
    setUint(Store(c, 0, <<120, zlhFlags(Or32(Shl32(zlhLevel(IF Has(o, "level") THEN o["level"]
                                                             ELSE 0), 6),
                                              IF Has(o, "dictionary") THEN 32 ELSE 0) % 256)>>),
            2, IF Has(o, "dictionary") THEN alder32(o["dictionary"]) ELSE 0)

\* zlh(d, o), setUint(d, d.length - 4, a), d
zlibEnd(d, dat, o) == setUint(zlh(d, o), Len(d) - 4, alder32(dat))

zlib(dat, o) == zlibEnd(dopt(dat, o, IF Has(o, "dictionary") THEN 6 ELSE 2, 4), dat, o)

\* the longest data and dictionary drawn from ZlibBytes
MaxData == 3

ZlibBytes == {0, 97, 255}

\* 17 bytes 0xff: the sum b passes 0x8000, the word alder32 returns is negative
Long255 == [i \in 1..17 |-> 255]

ZlibData == SeqsUpTo(ZlibBytes, MaxData) \cup {Long255}

ZlibOptions ==
    {[level |-> 0]}
    \cup {[level |-> 0, dictionary |-> dict] : dict \in {<<>>, <<97>>, <<0, 255>>, Long255}}

CallZlib ==
    /\ ~Called(zipped)
    /\ zipped' = [kind |-> "ok", val |-> zlib(data, opts)]
    /\ UNCHANGED <<data, opts, now, flat, input, filter, unz, yielded, localReads>>

InitZlib ==
    /\ data \in ZlibData
    /\ opts \in ZlibOptions
    /\ now = Today
    /\ flat = NotCalled
    /\ zipped = NotCalled
    /\ input = <<>>
    /\ filter = "none"
    /\ unz = NotCalled
    /\ yielded = <<>>
    /\ localReads = {}

NextZlib == CallZlib

SpecZlib == InitZlib /\ [][NextZlib]_vars

\* the 4 bytes of a 32-bit word, most significant first
BigEndian(word) ==
    <<Shr32U(word, 24) % 256, Shr32U(word, 16) % 256, Shr32U(word, 8) % 256, word % 256>>

\* C16 (as stated): the last 4 bytes of what zlib returns are the Adler-32 of
\* the data, most significant byte first; with a dictionary the 4 bytes after
\* the 2 bytes of the header are the Adler-32 of the dictionary, in that order.
C16_AdlerBigEndian ==
    Called(zipped) =>
        /\ SubSeq(zipped.val, Len(zipped.val) - 3, Len(zipped.val)) = BigEndian(alder32(data))
        /\ Has(opts, "dictionary") =>
              SubSeq(zipped.val, 3, 6) = BigEndian(alder32(opts["dictionary"]))

-----------------------------------------------------------------------------
(* The two checksums as functions of a byte array.                         *)

ChecksumData == SeqsUpTo({97, 98, 99, 255}, MaxData)

\* crc32(data) and alder32(data), kept as the numbers the calls return
CallChecksums ==
    /\ ~Called(flat)
    /\ flat' = [kind |-> "ok", crc32 |-> crc32(data), alder32 |-> alder32(data)]
    /\ UNCHANGED <<data, opts, now, zipped, input, filter, unz, yielded, localReads>>

InitChecksums ==
    /\ data \in ChecksumData
    /\ opts = EmptyObject
    /\ now = Today
    /\ flat = NotCalled
    /\ zipped = NotCalled
    /\ input = <<>>
    /\ filter = "none"
    /\ unz = NotCalled
    /\ yielded = <<>>
    /\ localReads = {}

NextChecksums == CallChecksums

SpecChecksums == InitChecksums /\ [][NextChecksums]_vars

\* C17 (as stated): the numbers returned are the published unsigned values:
\* crc32 of no bytes is 0 and of "a" is 0xe8b7be43 (a number that is not
\* negative and whose four bytes are e8 b7 be 43), alder32 of no bytes is 1
\* and of "abc" is 0x024d0127.
C17_TestVectors ==
    Called(flat) =>
        /\ data = <<>> => flat.crc32 = 0 /\ flat.alder32 = 1
        /\ data = <<97>> => flat.crc32 >= 0 /\ BigEndian(flat.crc32) = <<232, 183, 190, 67>>
        /\ data = <<97, 98, 99>> => flat.alder32 = 38600999

-----------------------------------------------------------------------------
(* The checksum fields of the two-file archive.                            *)

\* the CRC-32 fields of entry i: in its local header, in its central header
CrcFields(buffer, i) ==
    <<getUint32(buffer, IndexOf(Directory(buffer)[i].localFileHeaderOffset) + 14),
      getUint32(buffer, Headers(buffer)[i] + 16)>>

\* C18 (as stated): in the archive zip builds, without a comment option, of
\* two stored files "HELLO", both CRC-32 fields of both entries hold
\* 0x9a1f4d00.
C18_HelloCrcAsStated ==
    data = HelloTree /\ ~Has(opts, "comment") /\ Called(zipped) =>
        /\ zipped.kind = "ok"
        /\ Len(Headers(zipped.val)) = 2
        /\ \A i \in 1..2 : CrcFields(zipped.val, i) = <<<<0, 77, 31, 154>>, <<0, 77, 31, 154>>>>

\* C18 (amended): in the archive zip builds, without a comment option, of
\* two stored files "HELLO", both CRC-32 fields of both entries hold
\* 0xc1446436, the CRC-32 of the five bytes; the entries are stored, 5 bytes.
C18_HelloCrc ==
    data = HelloTree /\ ~Has(opts, "comment") /\ Called(zipped) =>
        /\ zipped.kind = "ok"
        /\ Len(Headers(zipped.val)) = 2
        /\ \A i \in 1..2 :
              /\ CrcFields(zipped.val, i) = <<<<54, 100, 68, 193>>, <<54, 100, 68, 193>>>>
              /\ Directory(zipped.val)[i].compressionMethod = 0
              /\ Directory(zipped.val)[i].compressedSize = <<5>>

\* C18 (witness): zip has returned the archive of the two files
C18_Witness ==
    /\ data = HelloTree /\ ~Has(opts, "comment") /\ zipped.kind = "ok"
    /\ Len(Headers(zipped.val)) = 2
    /\ Directory(zipped.val)[2].fileName = HelloTree[2][1]

-----------------------------------------------------------------------------
(* Where the archive holds the data of its entries.                        *)

\* what the first loop of zip collects for the tree: the tuples with the
\* offsets of the local headers, the offset o and the total tot
Planned(tree, options) ==
    zipFiles(flatten(tree, options).out, [kind |-> "ok", files |-> <<>>, o |-> 0, tot |-> 0])

\* the offset after the local header at offset, with the lengths of the name
\* and of the extra field read from that header
LocalDataOffset(buffer, offset) ==
    offset + MIN_LOCAL_FILE_HEADER_SIZE + getUint16(buffer, offset + 26)
        + getUint16(buffer, offset + 28)

\* the data of the tuple m start at the offset its local header gives, and
\* end at the offset next
DataPlaced(buffer, m, next) ==
    /\ Slice(buffer, LocalDataOffset(buffer, m.offset),
             LocalDataOffset(buffer, m.offset) + m.compressedSize) = m.fileData
    /\ LocalDataOffset(buffer, m.offset) + m.compressedSize = next

\* C19 (as stated): in the archive zip returns, the data of every entry are
\* the compressed-size bytes after its local header, name and extra field,
\* and they end where the next local header, or after the last entry the
\* central directory, begins.
C19_PayloadPlacement ==
    zipped.kind = "ok" =>
        \A i \in 1..Len(Planned(data, opts).files) :
            DataPlaced(zipped.val, Planned(data, opts).files[i],
                       IF i < Len(Planned(data, opts).files)
                       THEN Planned(data, opts).files[i + 1].offset
                       ELSE Planned(data, opts).o)

-----------------------------------------------------------------------------
(* The output buffer of zip and the records at its end.                    *)

\* the length of the archive comment of the options
ZipCommentLength(options) ==
    IF EncodedComment(options) = <<>> THEN 0 ELSE Len(EncodedComment(options)[1])

\* the end of central directory record sits at offset end of the buffer, the
\* archive comment after it ends the buffer, and the central directory the
\* record gives (offset, size, number of entries) is the planned one and ends
\* where the record starts
EndsBuffer(buffer, end, planned, commentLength) ==
    /\ end >= 0
    /\ Slice(buffer, end, end + 4) = <<80, 75, 5, 6>>
    /\ getUint16(buffer, end + 20) = commentLength
    /\ getUint16(buffer, end + 10) = Len(planned.files)
    /\ getUint32(buffer, end + 16) = NumOfInt(planned.o)
    /\ getUint32(buffer, end + 12) = NumOfInt(planned.tot - planned.o)
    /\ planned.tot = end
    /\ Len(planned.files) > 0 => Slice(buffer, planned.o, planned.o + 4) = <<80, 75, 1, 2>>

\* C20 (as stated): zip writes no byte outside the buffer it allocated (a
\* TypedArray.set outside it throws a RangeError); in the archive returned
\* the end of central directory record and the archive comment end at the
\* last byte, and the central directory starts at the offset and has the
\* size the record holds.
C20_BufferFilled ==
    Called(zipped) =>
        /\ zipped.kind = "throw" => zipped.error # RangeError
        /\ zipped.kind = "ok" =>
              EndsBuffer(zipped.val,
                         Len(zipped.val) - MIN_END_OF_CENTRAL_DIRECTORY_SIZE
                            - ZipCommentLength(opts),
                         Planned(data, opts), ZipCommentLength(opts))

-----------------------------------------------------------------------------
(* DEFLATE at the levels 1..9 (deflate.ts, huffman-tree.ts, constants.ts)  *)
(* and its inverse (inflate.ts).  A typed array is the sequence of its     *)
(* elements; element i of the source is element i + 1 of the sequence.     *)

\* a[i] under a bitwise or arithmetic operator: undefined counts as 0
Elem(a, i) == IF i >= 0 /\ i < Len(a) THEN a[i + 1] ELSE 0

\* a[i] = v in a typed array of the given modulus: dropped outside the array
SetElem(a, i, v, modulus) == IF i >= 0 /\ i < Len(a) THEN [a EXCEPT ![i + 1] = v % modulus] ELSE a

fixedLengthExtraBits ==
    <<0, 0, 0, 0, 0, 0, 0, 0, 1, 1, 1, 1, 2, 2, 2, 2, 3, 3, 3, 3, 4, 4, 4, 4, 5, 5, 5, 5,
      0, 0, 0, 0>>

fixedDistanceExtraBits ==
    <<0, 0, 0, 0, 1, 1, 2, 2, 3, 3, 4, 4, 5, 5, 6, 6, 7, 7, 8, 8, 9, 9, 10, 10, 11, 11,
      12, 12, 13, 13, 0, 0>>

codeLengthIndexMap == <<16, 17, 18, 0, 8, 7, 9, 6, 10, 5, 11, 4, 12, 3, 13, 2, 14, 1, 15>>

\* the sum of  1 << eb[k - 1]  for k = lo..hi, by halves
RECURSIVE fbSumRange(_, _, _)
fbSumRange(eb, lo, hi) ==
    IF lo > hi THEN 0
    ELSE IF lo = hi THEN Pow2(Elem(eb, lo - 1))
    ELSE fbSumRange(eb, lo, (lo + hi) \div 2) + fbSumRange(eb, (lo + hi) \div 2 + 1, hi)

\* the sum of  1 << eb[k - 1]  for k = 0..i  (eb[-1] is undefined: 1 << 0)
fbSum(eb, i) == fbSumRange(eb, 0, i)

\* fb (constants.ts): b[i] = s += 1 << eb[i - 1] from s = start, in a Uint16Array;
\* b[28] = 258 when start is 2
fb(eb, start) ==
    [k \in 1..31 |-> IF start = 2 /\ k = 29 THEN 258 ELSE (start + fbSum(eb, k - 1)) % 65536]

\* fre (constants.ts), element j of the Int32Array it returns:
\* r[j] = ((j - b[i]) << 5) | i  for b[i] <= j < b[i + 1], i = 1..29
fre(b, j) ==
    LET within == {i \in 1..29 : Elem(b, i) <= j /\ j < Elem(b, i + 1)}
    IN  IF j < 0 \/ j >= Elem(b, 30) \/ within = {} THEN 0
        ELSE Or32(Shl32(j - Elem(b, SetMax(within)), 5), SetMax(within))

\* the bases freb builds (the other constants.ts): b[i] = start += 1 << eb[i - 1]
frebBase(eb, start) == [k \in 1..31 |-> (start + fbSum(eb, k - 1)) % 65536]

\* the tables of the two constants.ts:
\*   "fb"    fl = fb(.., 2), revfl = fre(fl), fd = fb(.., 1), revfd = fre(fd)
\*   "freb"  [fl, revfl] = freb(.., 2), fl[28] = 258, revfl[258] = 28,
\*           [fd, revfd] = freb(.., 0)
Constants == {"fb", "freb"}

flFb == fb(fixedLengthExtraBits, 2)
fdFb == fb(fixedDistanceExtraBits, 1)
flFreb == frebBase(fixedLengthExtraBits, 2)
fdFreb == frebBase(fixedDistanceExtraBits, 0)

fl(c) == IF c = "fb" THEN flFb ELSE [flFreb EXCEPT ![29] = 258]
fd(c) == IF c = "fb" THEN fdFb ELSE fdFreb
revfl(c, l) == IF c = "fb" THEN fre(flFb, l) ELSE IF l = 258 THEN 28 ELSE fre(flFreb, l)
revfd(c, d) == IF c = "fb" THEN fre(fdFb, d) ELSE fre(fdFreb, d)

\* the low n bits of x in the opposite order
RECURSIVE ReverseBits(_, _)
ReverseBits(x, n) ==
    IF n = 0 THEN 0
    ELSE IF n = 1 THEN x % 2
    ELSE ReverseBits(x % Pow2(n \div 2), n \div 2) * Pow2(n - n \div 2)
            + ReverseBits(x \div Pow2(n \div 2), n - n \div 2)

\* rev[i] (makeRev): the 15 bits of i reversed
rev(i) == ReverseBits(i, 15)

\* l[len - 1] of hMap: the number of codes of length len
CountLength(cd, len) == Cardinality({k \in 1..Len(cd) : cd[k] = len})

\* le[i] = (le[i - 1] + l[i - 1]) << 1 in a Uint16Array, appended to le[0..i-1]
hMapLeNext(cd, le) == Append(le, ((le[Len(le)] + CountLength(cd, Len(le))) * 2) % 65536)

\* le of hMap, the minimum code of each bit length, before the codes are handed out
RECURSIVE hMapLe(_, _)
hMapLe(cd, maxBits) ==
    IF maxBits <= 0 THEN <<>>
    ELSE IF maxBits = 1 THEN <<0>>
    ELSE hMapLeNext(cd, hMapLe(cd, maxBits - 1))

\* le[cd[i] - 1]++ when the loop of hMap reaches symbol k - 1: the minimum code
\* of its length plus the number of earlier symbols of that length
hMapCode(cd, le, k) == (le[cd[k]] + Cardinality({j \in 1..(k - 1) : cd[j] = cd[k]})) % 65536

hMapCodes(cd, le) ==
    [k \in 1..Len(cd) |-> IF cd[k] = 0 THEN 0 ELSE rev(hMapCode(cd, le, k)) \div Pow2(15 - cd[k])]

\* hMap(cd, maxBits, 0): co[i] = rev[le[cd[i] - 1]++] >> (15 - cd[i])
hMap(cd, maxBits) == hMapCodes(cd, hMapLe(cd, maxBits))

\* element x of hMap(cd, maxBits, 1), co being hMap(cd, maxBits, 0).  The loop
\* stores sv = (i << 4) | cd[i] at every index whose low cd[i] bits are the
\* reversed code of symbol i, later symbols over earlier ones; other elements
\* stay 0
hMapReverse(cd, co, x) ==
    LET reading == {k \in 1..Len(cd) : cd[k] # 0 /\ x % Pow2(cd[k]) = co[k]}
    IN  IF reading = {} THEN 0 ELSE (SetMax(reading) - 1) * 16 + cd[SetMax(reading)]

\* flt and fdt, the code lengths of the fixed trees
flt == [k \in 1..288 |-> IF k <= 144 THEN 8 ELSE IF k <= 256 THEN 9 ELSE IF k <= 280 THEN 7 ELSE 8]
fdt == [k \in 1..32 |-> 5]

flm == hMap(flt, 9)
fdm == hMap(fdt, 5)
\* flrm[x] and fdrm[x]
flrm(x) == hMapReverse(flt, flm, x)
fdrm(x) == hMapReverse(fdt, fdm, x)

\* the error of reading a property of undefined
TypeError == <<"TypeError", "Cannot read properties of undefined">>

(* hTree (huffman-tree.ts).  A HuffNode is kept as its frequency f and the *)
(* depth, below the node, of every symbol under it: that is all ln reads.  *)

Leaf(s, f) == [f |-> f, depth |-> s :> 0, undef |-> FALSE]

\* { s: -1, f: l.f + r.f, l, r }
Parent(l, r) ==
    [f |-> l.f + r.f,
     depth |-> [x \in DOMAIN l.depth |-> 1 + l.depth[x]] @@ [x \in DOMAIN r.depth |-> 1 + r.depth[x]],
     undef |-> l.undef \/ r.undef]

\* the frequency of the node pushed behind the sorted leaves
SentinelFrequency == 25001

\* { s: -1, f: 25001 }: a node with s == -1 and neither l nor r, under which
\* ln reads s of undefined
Sentinel == [f |-> SentinelFrequency, depth |-> <<>>, undef |-> TRUE]

\* the symbols with a frequency, as indices of d
Used(d) == {k \in 1..Len(d) : d[k] # 0}

\* the place of symbol k after t.sort((a, b) => a.f - b.f), a stable sort of
\* the symbols in ascending order
Rank(d, S, k) == Cardinality({y \in S : d[y] < d[k] \/ (d[y] = d[k] /\ y <= k)})

SortByFrequency(d, S) ==
    [p \in 1..Cardinality(S) |->
        Leaf((CHOOSE k \in S : Rank(d, S, k) = p) - 1, d[CHOOSE k \in S : Rank(d, S, k) = p])]

\* one turn of  while (i1 != s - 1): l and r are taken from the lookbehind i0
\* or the lookahead i2, and their parent is stored at i1
hTreeTakeRight(t, l, i0, i1, i2) ==
    IF i0 # i1 /\ t[i0 + 1].f < t[i2 + 1].f
    THEN [t |-> [t EXCEPT ![i1 + 1] = Parent(l, t[i0 + 1])], i0 |-> i0 + 1, i1 |-> i1 + 1, i2 |-> i2]
    ELSE [t |-> [t EXCEPT ![i1 + 1] = Parent(l, t[i2 + 1])], i0 |-> i0, i1 |-> i1 + 1, i2 |-> i2 + 1]

\* with the sentinel taken as l, t[i2] is past the end of t and reading its
\* f, in the test for r or in l.f + r.f, is a TypeError: the turn ends with
\* a node that has undef set
hTreeTake(t, i0, i1, i2) ==
    IF t[i0 + 1].f < t[i2 + 1].f
    THEN hTreeTakeRight(t, t[i0 + 1], i0 + 1, i1, i2)
    ELSE IF t[i2 + 1].undef
         THEN [t |-> [t EXCEPT ![i1 + 1] = t[i2 + 1]], i0 |-> i0, i1 |-> i1 + 1, i2 |-> i2 + 1]
         ELSE hTreeTakeRight(t, t[i2 + 1], i0, i1, i2 + 1)

\* while (i1 != s - 1), up to n turns of it, by halves.  Once the sentinel
\* is a child, the next turn reads f of t[s + 1], which is undefined, and no
\* further turn is taken
RECURSIVE hTreeMerge(_, _, _)
hTreeMerge(m, s, n) ==
    IF m.i1 = s - 1 \/ m.t[m.i1].undef THEN m
    ELSE IF n = 1 THEN hTreeTake(m.t, m.i0, m.i1, m.i2)
    ELSE hTreeMerge(hTreeMerge(m, s, n \div 2), s, n - n \div 2)

\* t[i1 - 1] after the loop
hTreeMerged(m) == m.t[m.i1]

\* the root for the sorted leaves t (two or more): i1 goes from 1 to s - 1
hTreeRoot(t) ==
    hTreeMerged(hTreeMerge([t |-> [Append(t, Sentinel) EXCEPT ![1] = Parent(t[1], t[2])],
                            i0 |-> 0, i1 |-> 1, i2 |-> 2], Len(t), Len(t)))

\* tr after ln(t[i1 - 1], tr, 0), and the depth mbt of the tree
hTreeLengths(root) ==
    [t |-> [k \in 1..(SetMax(DOMAIN root.depth) + 1) |->
                IF k - 1 \in DOMAIN root.depth THEN root.depth[k - 1] ELSE 0],
     l |-> SetMax({root.depth[x] : x \in DOMAIN root.depth})]

(* The shortening of a tree deeper than mb.  tr is kept as in hTreeLengths, *)
(* t2 as the indices of its symbols in d, and the loop state is tr, the     *)
(* debt dt and the index i into t2; undef records a read of t2[i].s past    *)
(* the end of t2, a TypeError.                                              *)

\* the place of symbol k after t2.sort((a, b) => tr[b.s] - tr[a.s] || a.f - b.f),
\* a stable sort of the symbols in ascending order
LengthRank(d, tr, S, k) ==
    Cardinality({y \in S : \/ tr[y] > tr[k]
                           \/ tr[y] = tr[k] /\ d[y] < d[k]
                           \/ tr[y] = tr[k] /\ d[y] = d[k] /\ y <= k})

SortByLength(d, tr, S) == [p \in 1..Cardinality(S) |-> CHOOSE k \in S : LengthRank(d, tr, S, k) = p]

\* for (; i < s; ++i) if (tr[i2] > mb) { dt += cst - (1 << (mbt - tr[i2])); tr[i2] = mb } else break
RECURSIVE hTreeCap(_, _, _, _)
hTreeCap(q, t2, mb, mbt) ==
    IF q.i < Len(t2) /\ q.tr[t2[q.i + 1]] > mb
    THEN hTreeCap([q EXCEPT !.tr[t2[q.i + 1]] = mb,
                            !.dt = q.dt + Pow2(mbt - mb) - Pow2(mbt - q.tr[t2[q.i + 1]]),
                            !.i = q.i + 1], t2, mb, mbt)
    ELSE q

\* the debt dropped, not scaled: no length is made longer for the capped ones
hTreeScaleDropped(q, lft) == [q EXCEPT !.dt = 0]

\* dt >>= lft
hTreeScale(q, lft) == [q EXCEPT !.dt = q.dt \div Pow2(lft)]

\* while (dt > 0) if (tr[i2] < mb) dt -= 1 << (mb - tr[i2]++ - 1); else ++i
RECURSIVE hTreeLengthen(_, _, _)
hTreeLengthen(q, t2, mb) ==
    IF q.dt <= 0 THEN q
    ELSE IF q.i >= Len(t2) THEN [q EXCEPT !.undef = TRUE]
    ELSE IF q.tr[t2[q.i + 1]] < mb
         THEN hTreeLengthen([q EXCEPT !.tr[t2[q.i + 1]] = q.tr[t2[q.i + 1]] + 1,
                                      !.dt = q.dt - Pow2(mb - q.tr[t2[q.i + 1]] - 1)], t2, mb)
         ELSE hTreeLengthen([q EXCEPT !.i = q.i + 1], t2, mb)

\* for (; i >= 0 && dt; --i) if (tr[i2] == mb) { --tr[i2]; ++dt }
RECURSIVE hTreeRollBack(_, _, _)
hTreeRollBack(q, t2, mb) ==
    IF q.undef \/ q.i < 0 \/ q.dt = 0 THEN q
    ELSE IF q.i >= Len(t2) THEN [q EXCEPT !.undef = TRUE]
    ELSE IF q.tr[t2[q.i + 1]] = mb
         THEN hTreeRollBack([q EXCEPT !.tr[t2[q.i + 1]] = mb - 1, !.dt = q.dt + 1, !.i = q.i - 1], t2, mb)
         ELSE hTreeRollBack([q EXCEPT !.i = q.i - 1], t2, mb)

\* { t: new u8(tr), l: mbt } after the shortening, or the TypeError
hTreeLimited(q, mb) == IF q.undef THEN Throw(TypeError) ELSE [t |-> q.tr, l |-> mb]

\* if (mbt > mb) { ... mbt = mb }
hTreeLimit(d, tr, mb, mbt, t2) ==
    hTreeLimited(
        hTreeRollBack(
            hTreeLengthen(
                hTreeScale(hTreeCap([tr |-> tr, dt |-> 0, i |-> 0, undef |-> FALSE], t2, mb, mbt),
                           mbt - mb),
                t2, mb),
            t2, mb),
        mb)

\* the lengths of the tree, or the shortened lengths
hTreeShorten(d, mb, lengths) ==
    IF lengths.l > mb
    THEN hTreeLimit(d, lengths.t, mb, lengths.l, SortByLength(d, lengths.t, Used(d)))
    ELSE lengths

\* the end of hTree for the root of the tree: the TypeError of ln under the
\* sentinel, or the lengths
hTreeOfRoot(d, mb, root) ==
    IF root.undef THEN Throw(TypeError) ELSE hTreeShorten(d, mb, hTreeLengths(root))

\* hTree(d, mb): the code lengths t and the longest length l
hTree(d, mb) ==
    IF Used(d) = {} THEN [t |-> <<>>, l |-> 0]
    ELSE IF Cardinality(Used(d)) = 1
         THEN [t |-> [k \in 1..SetMax(Used(d)) |-> IF k = SetMax(Used(d)) THEN 1 ELSE 0], l |-> 1]
         ELSE hTreeOfRoot(d, mb, hTreeRoot(SortByFrequency(d, Used(d))))

(* lc (huffman-tree.ts): the code lengths as symbols of the code-length    *)
(* alphabet, runs packed as symbol | extra << 5 | extra bits << 12.        *)

\* s of lc: one past the last length that is not 0, at least 1
lcLength(c) == IF Used(c) = {} THEN 1 ELSE SetMax(Used(c))

RECURSIVE lcZeros(_)
\* a run of cls > 2 zeros
lcZeros(cls) ==
    IF cls > 138 THEN <<32754>> \o lcZeros(cls - 138)
    ELSE IF cls > 10 THEN <<Or32(Shl32(cls - 11, 5), 28690)>>
    ELSE IF cls > 2 THEN <<Or32(Shl32(cls - 3, 5), 12305)>>
    ELSE [k \in 1..cls |-> 0]

RECURSIVE lcRepeat(_, _)
\* what follows the first length cln of a run of more than 3: cls more of it
lcRepeat(cln, cls) ==
    IF cls > 6 THEN <<8304>> \o lcRepeat(cln, cls - 6)
    ELSE IF cls > 2 THEN <<Or32(Shl32(cls - 3, 5), 8208)>>
    ELSE [k \in 1..cls |-> cln]

\* what lc writes for a run of cls lengths cln
lcRun(cln, cls) ==
    IF cln = 0 /\ cls > 2 THEN lcZeros(cls)
    ELSE IF cls > 3 THEN <<cln>> \o lcRepeat(cln, cls - 1)
    ELSE [k \in 1..cls |-> cln]

\* the end of the run of equal lengths that starts at index i, within c[0..s-1]
lcRunEnd(c, s, i) == SetMin({j \in (i + 1)..s : j = s \/ Elem(c, j) # Elem(c, i)})

\* what the loop of lc writes for the runs that start at the indices lo..hi:
\* a run is written when the loop reaches its end
RECURSIVE lcRuns(_, _, _, _)
lcRuns(c, s, lo, hi) ==
    IF lo = hi
    THEN IF lo = 0 \/ Elem(c, lo) # Elem(c, lo - 1)
         THEN lcRun(Elem(c, lo), lcRunEnd(c, s, lo) - lo)
         ELSE <<>>
    ELSE lcRuns(c, s, lo, (lo + hi) \div 2) \o lcRuns(c, s, (lo + hi) \div 2 + 1, hi)

lc(c) == [c |-> lcRuns(c, lcLength(c), 0, lcLength(c) - 1), n |-> lcLength(c)]

\* the sum of cf[i] * cl[i] over lo <= i <= hi, by halves
RECURSIVE clenRange(_, _, _, _)
clenRange(cf, cl, lo, hi) ==
    IF lo > hi THEN 0
    ELSE IF lo = hi THEN cf[lo] * cl[lo]
    ELSE clenRange(cf, cl, lo, (lo + hi) \div 2) + clenRange(cf, cl, (lo + hi) \div 2 + 1, hi)

\* clen(cf, cl): the sum of cf[i] * cl[i]
clen(cf, cl) == clenRange(cf, cl, 1, Len(cl))

(* The bit primitives (bytes.ts).                                          *)

\* shft(p): (p + 7) / 8 | 0
shft(p) == (p + 7) \div 8

\* d[o] |= v in a Uint8Array
OrElem(d, o, v) ==
    IF o >= 0 /\ o < Len(d) THEN [d EXCEPT ![o + 1] = BitsOf("|", @, v % 256, 0, 7)] ELSE d

\* wbits(d, p, v): v <<= p & 7, d[o] |= v, d[o + 1] |= v >> 8
wbits(d, p, v) ==
    OrElem(OrElem(d, p \div 8, v * Pow2(p % 8)), p \div 8 + 1, (v * Pow2(p % 8)) \div 256)

\* wbits16(d, p, v): as wbits, and d[o + 2] |= v >> 16
wbits16(d, p, v) == OrElem(wbits(d, p, v), p \div 8 + 2, (v * Pow2(p % 8)) \div 65536)

\* bits16(d, p): (d[o] | d[o + 1] << 8 | d[o + 2] << 16) >> (p & 7)
bits16(d, p) ==
    (Elem(d, p \div 8) + 256 * Elem(d, p \div 8 + 1) + 65536 * Elem(d, p \div 8 + 2))
        \div Pow2(p % 8)

\* bits(d, p, m): ((d[o] | d[o + 1] << 8) >> (p & 7)) & m
bits(d, p, m) ==
    And32((Elem(d, p \div 8) + 256 * Elem(d, p \div 8 + 1)) \div Pow2(p % 8), m)

(* The block writer (deflate.ts).  A writer is the output array out and    *)
(* the bit position p.                                                     *)

Put(w, v, n) == [out |-> wbits(w.out, w.p, v), p |-> w.p + n]
Put16(w, v, n) == [out |-> wbits16(w.out, w.p, v), p |-> w.p + n]

\* wfblk(out, pos, dat) of a block inside dflt: the stored block written at
\* the next byte after the 3 header bits, and the new bit position
wfblkAt(w, dat) ==
    [out |-> Store(w.out, shft(w.p + 2), wfblk(dat)), p |-> (shft(w.p + 2) + 4 + Len(dat)) * 8]

\* ++lcfreq[clct[i] & 31] for the symbols of clct
lcFrequencies(clct) == [k \in 1..19 |-> Cardinality({i \in 1..Len(clct) : clct[i] % 32 = k - 1})]

\* for (nlcc = 19; nlcc > 4 && !lct[codeLengthIndexMap[nlcc - 1]]; --nlcc)
RECURSIVE nlccFrom(_, _)
nlccFrom(lct, nlcc) ==
    IF nlcc > 4 /\ Elem(lct, codeLengthIndexMap[nlcc]) = 0 THEN nlccFrom(lct, nlcc - 1) ELSE nlcc

\* the trees of a block, its three sizes in bits, and its type: 0 stored,
\* 1 fixed, 2 dynamic
wblkPlan(lf, df, eb, bs, bl, ltree, dtree, ll, ld, lcfreq, ctree) ==
    LET nlcc == nlccFrom(ctree.t, 19)
        flen == (bl + 5) * 8
        ftlen == clen(lf, flt) + clen(df, fdt) + eb
        dtlen == clen(lf, ltree.t) + clen(df, dtree.t) + eb + 14 + 3 * nlcc
                    + clen(lcfreq, ctree.t) + 2 * lcfreq[17] + 3 * lcfreq[18] + 7 * lcfreq[19]
    IN  [dlt |-> ltree.t, mlb |-> ltree.l, ddt |-> dtree.t, mdb |-> dtree.l,
         lclt |-> ll.c, nlc |-> ll.n, lcdt |-> ld.c, ndc |-> ld.n,
         lct |-> ctree.t, mlcb |-> ctree.l, nlcc |-> nlcc,
         flen |-> flen, ftlen |-> ftlen, dtlen |-> dtlen,
         type |-> IF bs >= 0 /\ flen <= ftlen /\ flen <= dtlen THEN 0
                  ELSE IF dtlen < ftlen THEN 2 ELSE 1]

wblkCodeLengths(lf, df, eb, bs, bl, ltree, dtree, ll, ld) ==
    wblkPlan(lf, df, eb, bs, bl, ltree, dtree, ll, ld, lcFrequencies(ll.c \o ld.c),
             hTree(lcFrequencies(ll.c \o ld.c), 7))

wblkTrees(lf, df, eb, bs, bl, ltree, dtree) ==
    wblkCodeLengths(lf, df, eb, bs, bl, ltree, dtree, lc(ltree.t), lc(dtree.t))

\* lf being the frequencies after ++lf[256]
Plan(lf, df, eb, bs, bl) == wblkTrees(lf, df, eb, bs, bl, hTree(lf, 15), hTree(df, 15))

\* for (let i = 0; i < nlcc; ++i) wbits(out, p + 3 * i, lct[codeLengthIndexMap[i]]),
\* up to n turns of it, by halves: q is the writer w and i
RECURSIVE wblkLctLoop(_, _, _, _)
wblkLctLoop(q, lct, nlcc, n) ==
    IF q.i >= nlcc THEN q
    ELSE IF n = 1 THEN [w |-> Put(q.w, Elem(lct, codeLengthIndexMap[q.i + 1]), 3), i |-> q.i + 1]
    ELSE wblkLctLoop(wblkLctLoop(q, lct, nlcc, n \div 2), lct, nlcc, n - n \div 2)

\* the code lengths of the code-length alphabet, in the order of codeLengthIndexMap
wblkLct(w, lct, nlcc) == wblkLctLoop([w |-> w, i |-> 0], lct, nlcc, nlcc).w

\* one symbol of lclt or lcdt: its code, then the extra bits of a run
wblkRun(w, c, len) == IF len > 15 THEN Put(w, (c \div 32) % 128, c \div 4096) ELSE w

\* for (let i = 0; i < clct.length; ++i), up to n turns of it, by halves: q
\* is the writer w and i
RECURSIVE wblkClctLoop(_, _, _, _, _)
wblkClctLoop(q, clct, llm, lct, n) ==
    IF q.i >= Len(clct) THEN q
    ELSE IF n = 1
    THEN [w |-> wblkRun(Put(q.w, Elem(llm, clct[q.i + 1] % 32), Elem(lct, clct[q.i + 1] % 32)),
                        clct[q.i + 1], clct[q.i + 1] % 32),
          i |-> q.i + 1]
    ELSE wblkClctLoop(wblkClctLoop(q, clct, llm, lct, n \div 2), clct, llm, lct, n - n \div 2)

wblkClct(w, clct, llm, lct) == wblkClctLoop([w |-> w, i |-> 0], clct, llm, lct, Len(clct) + 1).w

\* the header of a dynamic block after its type
wblkDynamic(w, b, llm) ==
    wblkClct(wblkClct(wblkLct([out |-> wbits(wbits(wbits(w.out, w.p, b.nlc - 257),
                                                   w.p + 5, b.ndc - 1),
                                             w.p + 10, b.nlcc - 4),
                                p |-> w.p + 14],
                               b.lct, b.nlcc),
                      b.lclt, llm, b.lct),
             b.lcdt, llm, b.lct)

\* the distance of a match: its code, then its extra bits
wblkDistance(w, sym, dst, dm, dl) ==
    IF dst > 3
    THEN Put16(Put16(w, Elem(dm, dst), Elem(dl, dst)), (sym \div 32) % 8192,
               fixedDistanceExtraBits[dst + 1])
    ELSE Put16(w, Elem(dm, dst), Elem(dl, dst))

\* the length of a match: its code, then its extra bits
wblkLength(w, sym, len, lm, ll) ==
    IF len > 7
    THEN Put(Put16(w, Elem(lm, len + 257), Elem(ll, len + 257)), (sym \div Pow2(23)) % 32,
             fixedLengthExtraBits[len + 1])
    ELSE Put16(w, Elem(lm, len + 257), Elem(ll, len + 257))

wblkSymbol(w, sym, lm, ll, dm, dl) ==
    IF sym > 255
    THEN wblkDistance(wblkLength(w, sym, (sym \div Pow2(18)) % 32, lm, ll), sym, sym % 32, dm, dl)
    ELSE Put16(w, Elem(lm, sym), Elem(ll, sym))

\* for (let i = 0; i < li; ++i), up to n turns of it, by halves: q is the
\* writer w and i
RECURSIVE wblkSymbolsLoop(_, _, _, _, _, _, _)
wblkSymbolsLoop(q, syms, n, lm, ll, dm, dl) ==
    IF q.i >= Len(syms) THEN q
    ELSE IF n = 1 THEN [w |-> wblkSymbol(q.w, syms[q.i + 1], lm, ll, dm, dl), i |-> q.i + 1]
    ELSE wblkSymbolsLoop(wblkSymbolsLoop(q, syms, n \div 2, lm, ll, dm, dl), syms,
                         n - n \div 2, lm, ll, dm, dl)

wblkSymbols(w, syms, lm, ll, dm, dl) ==
    wblkSymbolsLoop([w |-> w, i |-> 0], syms, Len(syms) + 1, lm, ll, dm, dl).w

\* the symbols and the end-of-block code, with the maps of the block
wblkCoded(w, syms, lm, ll, dm, dl) ==
    Put16(wblkSymbols(w, syms, lm, ll, dm, dl), Elem(lm, 256), Elem(ll, 256))

\* what follows the bit final: the block as planned in b
wblkWrite(w, dat, syms, bs, bl, b) ==
    IF b.type = 0 THEN wfblkAt(w, SubSeq(dat, bs + 1, bs + bl))
    ELSE IF b.type = 2
    THEN wblkCoded(wblkDynamic(Put(w, 2, 2), b, hMap(b.lct, b.mlcb)), syms,
                   hMap(b.dlt, b.mlb), b.dlt, hMap(b.ddt, b.mdb), b.ddt)
    ELSE wblkCoded(Put(w, 1, 2), syms, flm, flt, fdm, fdt)

\* wblk: the writer after the block; syms holds the li symbols
wblk(dat, w, final, syms, lf, df, eb, bs, bl) ==
    wblkWrite(Put(w, final, 1), dat, syms, bs, bl,
              Plan([lf EXCEPT ![257] = (@ + 1) % 65536], df, eb, bs, bl))

(* dflt at a level above 0 (deflate.ts).  head and prev are kept as the    *)
(* elements stored so far; every other element is 0.  A block is closed    *)
(* inside the loop only after 7000 matches or 24576 symbols, which the     *)
(* data of this model does not reach: bs stays 0 and the one block is the  *)
(* final one.                                                              *)

\* deo: (nice << 13) | chain for the levels 1..9
deo == <<65540, 131080, 131088, 131104, 262176, 1048704, 1048832, 2114560, 2117632>>

Stored(map, k) == IF k \in DOMAIN map THEN map[k] ELSE 0
Keep(map, k, v) == (k :> (v % 65536)) @@ map

\* ++f[k] in a Uint16Array
Increment(f, k) == SetElem(f, k, Elem(f, k) + 1, 65536)

\* dat[a] == dat[b]: undefined equals undefined only
Same(dat, a, b) ==
    IF a >= 0 /\ a < Len(dat) /\ b >= 0 /\ b < Len(dat) THEN dat[a + 1] = dat[b + 1]
    ELSE ~(a >= 0 /\ a < Len(dat)) /\ ~(b >= 0 /\ b < Len(dat))

\* hsh(i) = (dat[i] ^ (dat[i + 1] << bs1) ^ (dat[i + 2] << bs2)) & msk
hsh(dat, i, plvl) ==
    Xor32(Xor32(Elem(dat, i), Elem(dat, i + 1) * Pow2((plvl + 2) \div 3)),
          Elem(dat, i + 2) * Pow2(2 * ((plvl + 2) \div 3))) % Pow2(plvl)

\* nl after  for (nl = 0; nl < ml && dat[i + nl] == dat[i + nl - dif]; ++nl)
MatchLength(dat, i, dif, ml) ==
    SetMin({nl \in 0..ml : nl = ml \/ ~Same(dat, i + nl, i + nl - dif)})

\* the loop over j < mmd for the rarest 2-byte sequence of the match: r is md
\* and pimod
RECURSIVE Rarest(_, _, _, _, _, _)
Rarest(prev, i, dif, mmd, j, r) ==
    IF j >= mmd THEN r
    ELSE LET ti == (i - dif + j) % 32768
             cd == (ti - Stored(prev, ti)) % 32768
         IN  Rarest(prev, i, dif, mmd, j + 1,
                    IF cd > r.md THEN [md |-> cd, pimod |-> ti] ELSE r)

\* imod = pimod, pimod = prev[imod], dif += imod - pimod & 32767
Previous(prev, m, pimod) ==
    [m EXCEPT !.imod = pimod, !.pimod = Stored(prev, pimod),
              !.dif = @ + ((pimod - Stored(prev, pimod)) % 32768)]

\* a longer match of nl bytes at distance m.dif: taken, and the search ends
\* when it is nice, else goes on from the rarest sequence within it
Longer(dat, prev, i, m, maxn, nl) ==
    IF nl > maxn THEN [m EXCEPT !.l = nl, !.d = m.dif, !.ch = 0]
    ELSE Previous(prev, [m EXCEPT !.l = nl, !.d = m.dif],
                  Rarest(prev, i, m.dif, Min(m.dif, nl - 2), 0,
                         [md |-> 0, pimod |-> m.pimod]).pimod)

\* the body of one turn of the search
Candidate(dat, prev, i, m, maxn, nl) ==
    IF nl > m.l THEN Longer(dat, prev, i, m, maxn, nl) ELSE Previous(prev, m, m.pimod)

\* while (dif <= maxd && --ch && imod != pimod): m holds l, d, ch, dif, imod
\* and pimod; ch = 0 stands for the break
RECURSIVE Search(_, _, _, _, _, _, _)
Search(dat, prev, i, m, maxn, maxd, ml) ==
    IF m.dif > maxd \/ m.ch <= 1 \/ m.imod = m.pimod THEN m
    ELSE IF Same(dat, i + m.l, i + m.l - m.dif)
    THEN Search(dat, prev, i,
                Candidate(dat, prev, i, [m EXCEPT !.ch = @ - 1], maxn,
                          MatchLength(dat, i, m.dif, ml)),
                maxn, maxd, ml)
    ELSE Search(dat, prev, i, Previous(prev, [m EXCEPT !.ch = @ - 1], m.pimod), maxn, maxd, ml)

\* l and d of the match found at i, d = 0 for none; pimod is head[hv] as it
\* was, n and c are nice and chain of the level
FindMatch(dat, prev, i, s, plvl, hv, pimod, n, c) ==
    IF s - i > 2 /\ hv = hsh(dat, i - (((i % 32768) - pimod) % 32768), plvl)
    THEN Search(dat, prev, i,
                [l |-> 2, d |-> 0, ch |-> c, dif |-> ((i % 32768) - pimod) % 32768,
                 imod |-> i % 32768, pimod |-> pimod],
                Min(n, s - i) - 1, Min(32767, i), Min(258, s - i))
    ELSE [l |-> 2, d |-> 0]

\* syms[li++] = dat[i], ++lf[dat[i]]
Literal(t, byte) == [t EXCEPT !.syms = Append(@, byte), !.lf = Increment(@, byte)]

\* the symbol of a match of length l at distance d, with rl = revfl[l] and
\* rd = revfd[d]
Match(t, i, l, rl, rd) ==
    [t EXCEPT !.syms = Append(@, Or32(Or32(268435456, Shl32(rl, 18)), rd)),
              !.eb = @ + fixedLengthExtraBits[(rl % 32) + 1] + fixedDistanceExtraBits[(rd % 32) + 1],
              !.lf = Increment(@, 257 + (rl % 32)),
              !.df = Increment(@, rd % 32),
              !.wi = i + l,
              !.lc = @ + 1]

\* if (wi <= i): a match or a literal at i
Symbol(c, dat, t, i, m) ==
    IF t.wi > i THEN t
    ELSE IF m.d # 0 THEN Match(t, i, m.l, revfl(c, m.l), revfd(c, m.d))
    ELSE Literal(t, dat[i + 1])

\* one turn of  for (; i + 2 < s; ++i)
dfltStep(c, dat, t, i, plvl, hv, opt) ==
    Symbol(c, dat,
           [t EXCEPT !.prev = Keep(@, i % 32768, Stored(t.head, hv)),
                     !.head = Keep(@, hv, i % 32768)],
           i,
           IF t.wi > i THEN [l |-> 2, d |-> 0]
           ELSE FindMatch(dat, Keep(t.prev, i % 32768, Stored(t.head, hv)), i, Len(dat), plvl,
                          hv, Stored(t.head, hv), opt \div 8192, opt % 8192))

\* ++i
dfltNext(t) == [t EXCEPT !.i = @ + 1]

\* for (; i + 2 < s; ++i), up to n turns of it, by halves
RECURSIVE dfltLoop(_, _, _, _, _, _)
dfltLoop(c, dat, t, n, plvl, opt) ==
    IF t.i + 2 >= Len(dat) THEN t
    ELSE IF n = 1 THEN dfltNext(dfltStep(c, dat, t, t.i, plvl, hsh(dat, t.i, plvl), opt))
    ELSE dfltLoop(c, dat, dfltLoop(c, dat, t, n \div 2, plvl, opt), n - n \div 2, plvl, opt)

\* for (i = Math.max(i, wi); i < s; ++i): the literals of the tail
RECURSIVE dfltTail(_, _, _)
dfltTail(dat, t, i) ==
    IF i >= Len(dat) THEN [t EXCEPT !.i = i] ELSE dfltTail(dat, Literal(t, dat[i + 1]), i + 1)

dfltSymbols(c, dat, lvl, plvl, w) ==
    dfltLoop(c, dat,
             [syms |-> <<>>, lf |-> Zeros(288), df |-> Zeros(32), eb |-> 0, lc |-> 0, wi |-> w,
              i |-> 0, head |-> <<>>, prev |-> <<>>],
             Len(dat) + 1, plvl, deo[lvl])

dfltEnd(dat, t) == dfltTail(dat, t, Max(t.i, t.wi))

\* the final block: wblk(dat, w, lst, syms, lf, df, eb, li, bs, i - bs, pos)
dfltBlock(dat, t, size) ==
    wblk(dat, [out |-> Zeros(size), p |-> 0], 1, t.syms, t.lf, t.df, t.eb, 0, t.i)

\* the size of w: s + 5 * (1 + Math.ceil(s / 7000))
dfltSize(s) == s + 5 * (1 + (s + 6999) \div 7000)

\* o.slice(0, pre + shft(pos) + post)
dfltSlice(w, pre, post) == Zeros(pre) \o SubSeq(w.out \o Zeros(post), 1, shft(w.p) + post)

\* dflt(dat, lvl, plvl, pre, post, st) with st.l = 1 and st.w = w, for the
\* constants c
dflt(c, dat, lvl, plvl, pre, post, w) ==
    IF lvl = 0 THEN Zeros(pre) \o dfltStored(dat, w) \o Zeros(post)
    ELSE dfltSlice(dfltBlock(dat, dfltEnd(dat, dfltSymbols(c, dat, lvl, plvl, w)),
                             dfltSize(Len(dat))),
                   pre, post)

\* the steps of Math.ceil(Math.max(8, Math.min(13, Math.log(n))) * 1.5): the
\* least n at which it reaches 13, 14, ..., 20
LogSteps == <<2981, 5807, 11309, 22027, 42902, 83562, 162755, 317004>>

\* the argument plvl of dflt
plvlOf(len, opt) ==
    IF Has(opt, "mem") THEN 12 + opt["mem"]
    ELSE 12 + Cardinality({k \in 1..Len(LogSteps) : len >= LogSteps[k]})

\* dopt(dat, opt, pre, post) at any level, with the tables of the constants c
doptLevel(c, dat, opt, pre, post) ==
    dflt(c, dictionaryOf(opt) \o dat, IF Has(opt, "level") THEN opt["level"] ELSE 6,
         plvlOf(Len(dictionaryOf(opt)) + Len(dat), opt), pre, post, Len(dictionaryOf(opt)))

\* deflate(data, opts) = dopt(data, opts || {}, 0, 0)
deflateLevel(c, dat, o) == doptLevel(c, dat, o, 0, 0)

(* inflt (inflate.ts), called as inflt(dat, { i: 2 }, undefined, dict).    *)
(* err (error.ts) builds a FlateError and returns it, and inflt drops what *)
(* err returns: after a failed test the code simply goes on.  The outcome  *)
(* is the bytes returned, a TypeError from reading an element of           *)
(* undefined, or no return at all.                                         *)

NoReturn == [kind |-> "hang"]

\* a decode map hMap(cd, maxBits, 1)
DecodeMap(cd, maxBits) == [cd |-> cd, co |-> hMap(cd, maxBits), bits |-> maxBits]

\* map[v & ((1 << maxBits) - 1)]
Decode(map, v) == hMapReverse(map.cd, map.co, v % Pow2(map.bits))

\* max(a): a[0] for an array of one element, undefined (0 here) for none
max(a) == IF Len(a) = 0 THEN 0 ELSE SetMax({a[k] : k \in 1..Len(a)})

\* for (; bt < end; ++bt) buf[bt] = buf[bt - dt], up to dt bytes at a time:
\* the bytes copied are the last dt bytes, again and again; with dt = 0 each
\* byte read is one not written yet, a 0
RECURSIVE CopyBack(_, _, _)
CopyBack(buf, dt, end) ==
    IF Len(buf) >= end THEN buf
    ELSE IF dt <= 0 \/ dt > Len(buf)
    THEN buf \o [k \in 1..(end - Len(buf)) |-> Elem(buf, Len(buf) + k - 1 - dt)]
    ELSE CopyBack(buf \o SubSeq(buf, Len(buf) - dt + 1, Min(Len(buf), end - dt)), dt, end)

\* for (; bt < dend; ++bt) buf[bt] = dict[shift + bt]
CopyDictionary(buf, dict, shift, dend) ==
    buf \o [k \in 1..(dend - Len(buf)) |-> Elem(dict, shift + Len(buf) + k - 1)]

\* the copy of add bytes from the distance dt, r.pos being past the match
inflCopy(r, dict, add, dt) ==
    IF Len(r.buf) < dt /\ dict = <<>> /\ add > 0 THEN [r EXCEPT !.end = "throw"]
    ELSE IF Len(r.buf) < dt
    THEN [r EXCEPT !.buf = CopyBack(CopyDictionary(@, dict[1], Len(dict[1]) - dt,
                                                   Min(dt, Len(r.buf) + add)),
                                    dt, Len(r.buf) + add)]
    ELSE [r EXCEPT !.buf = CopyBack(@, dt, Len(r.buf) + add)]

\* the extra bits of the distance code dsym, pos being past the code
inflDistanceExtra(c, dat, r, pos, add, dsym, dict) ==
    IF dsym > 3
    THEN IF pos + fixedDistanceExtraBits[dsym + 1] > 8 * Len(dat) THEN [r EXCEPT !.end = "break"]
         ELSE inflCopy([r EXCEPT !.pos = pos + fixedDistanceExtraBits[dsym + 1]], dict, add,
                       Elem(fd(c), dsym)
                         + (bits16(dat, pos) % Pow2(fixedDistanceExtraBits[dsym + 1])))
    ELSE IF pos > 8 * Len(dat) THEN [r EXCEPT !.end = "break"]
    ELSE inflCopy([r EXCEPT !.pos = pos], dict, add, Elem(fd(c), dsym))

\* the distance after a length of add bytes: d is dm[bits16(dat, pos) & dms]
inflDistance(c, dat, r, pos, add, d, dict) ==
    inflDistanceExtra(c, dat, r, pos + (d % 16), add, d \div 16, dict)

\* a length symbol above 256, pos being past its code
inflLength(c, dat, r, dm, pos, sym, dict) ==
    IF sym > 264
    THEN inflDistance(c, dat, r, pos + Elem(fixedLengthExtraBits, sym - 257),
                      bits(dat, pos, Pow2(Elem(fixedLengthExtraBits, sym - 257)) - 1)
                        + Elem(fl(c), sym - 257),
                      Decode(dm, bits16(dat, pos + Elem(fixedLengthExtraBits, sym - 257))), dict)
    ELSE inflDistance(c, dat, r, pos, sym - 254, Decode(dm, bits16(dat, pos)), dict)

\* one turn of the loop over the symbols of a block: code is
\* lm[bits16(dat, pos) & lms].  A code 0 is a literal 0 of no bits, read again
\* and again
inflSymbol(c, dat, r, dm, code, dict) ==
    IF r.pos + (code % 16) > 8 * Len(dat) THEN [r EXCEPT !.end = "break"]
    ELSE IF code = 0 THEN [r EXCEPT !.end = "hang"]
    ELSE IF code \div 16 < 256
    THEN [r EXCEPT !.pos = @ + (code % 16), !.buf = Append(@, code \div 16)]
    ELSE IF code \div 16 = 256 THEN [r EXCEPT !.pos = @ + (code % 16), !.end = "eob"]
    ELSE inflLength(c, dat, r, dm, r.pos + (code % 16), code \div 16, dict)

\* up to n turns of the loop, by halves
RECURSIVE inflSymbols(_, _, _, _, _, _, _)
inflSymbols(c, dat, r, lm, dm, dict, n) ==
    IF r.end # "" THEN r
    ELSE IF n = 1 THEN inflSymbol(c, dat, r, dm, Decode(lm, bits16(dat, r.pos)), dict)
    ELSE inflSymbols(c, dat, inflSymbols(c, dat, r, lm, dm, dict, n \div 2), lm, dm, dict,
                     n - n \div 2)

\* clt of a dynamic block: clt[codeLengthIndexMap[i]] = bits(dat, pos + i * 3, 7)
inflClt(dat, pos, hcLen) ==
    [s \in 1..19 |->
        LET at == {i \in 1..hcLen : codeLengthIndexMap[i] = s - 1}
        IN  IF at = {} THEN 0 ELSE bits(dat, pos + (SetMax(at) - 1) * 3, 7)]

\* while (n--) ldt[i++] = c
Repeated(q, pos, n, v) == [pos |-> pos, ldt |-> q.ldt \o [k \in 1..n |-> v]]

\* one turn of the loop over the code lengths: r is clm[bits(dat, pos, clbmsk)]
inflLengthCode(dat, q, pos, s) ==
    IF s < 16 THEN Repeated(q, pos, 1, s)
    ELSE IF s = 16 THEN Repeated(q, pos + 2, 3 + bits(dat, pos, 3), Elem(q.ldt, Len(q.ldt) - 1))
    ELSE IF s = 17 THEN Repeated(q, pos + 3, 3 + bits(dat, pos, 7), 0)
    ELSE IF s = 18 THEN Repeated(q, pos + 7, 11 + bits(dat, pos, 127), 0)
    ELSE Repeated(q, pos, 0, 0)

inflLengthCodeAt(dat, q, r) == inflLengthCode(dat, q, q.pos + (r % 16), r \div 16)

\* up to n turns of  for (let i = 0; i < tl;), by halves
RECURSIVE inflLengthCodes(_, _, _, _, _)
inflLengthCodes(dat, clm, tl, q, n) ==
    IF Len(q.ldt) >= tl THEN q
    ELSE IF n = 1
    THEN inflLengthCodeAt(dat, q, Decode(clm, bits(dat, q.pos, Pow2(clm.bits) - 1)))
    ELSE inflLengthCodes(dat, clm, tl, inflLengthCodes(dat, clm, tl, q, n \div 2), n - n \div 2)

\* ldt, the tl code lengths of the two trees, and the position after them: a
\* turn writes one length or more
inflLengthsOf(q, tl) == [pos |-> q.pos, ldt |-> SubSeq(q.ldt, 1, tl)]

inflLengths(dat, clm, tl, q) == inflLengthsOf(inflLengthCodes(dat, clm, tl, q, tl), tl)

\* lm and dm of a dynamic block from its code lengths
inflMaps(q, hLit) ==
    [pos |-> q.pos,
     lm |-> DecodeMap(SubSeq(q.ldt, 1, hLit), max(SubSeq(q.ldt, 1, hLit))),
     dm |-> DecodeMap(SubSeq(q.ldt, hLit + 1, Len(q.ldt)), max(SubSeq(q.ldt, hLit + 1, Len(q.ldt))))]

inflDynamicTrees(dat, pos, hLit, tl, clt) ==
    inflMaps(inflLengths(dat, DecodeMap(clt, max(clt)), tl, [pos |-> pos, ldt |-> <<>>]), hLit)

\* the header of a dynamic block at pos
inflDynamic(dat, pos) ==
    inflDynamicTrees(dat, pos + 14 + (bits(dat, pos + 10, 15) + 4) * 3,
                     bits(dat, pos, 31) + 257,
                     bits(dat, pos, 31) + 257 + bits(dat, pos + 5, 31) + 1,
                     inflClt(dat, pos + 14, bits(dat, pos + 10, 15) + 4))

\* the maps of a block of type 1 or 2 whose header ends at pos
inflHeader(dat, pos, type) ==
    IF type = 1 THEN [pos |-> pos, lm |-> DecodeMap(flt, 9), dm |-> DecodeMap(fdt, 5)]
    ELSE inflDynamic(dat, pos)

\* a stored block: s is the index of its first byte, l its length
inflStored(dat, r, s, l) ==
    IF s + l > Len(dat) THEN [r EXCEPT !.end = "break"]
    ELSE [r EXCEPT !.buf = @ \o SubSeq(dat, s + 1, s + l), !.pos = (s + l) * 8, !.end = "eob"]

\* the symbols of a block of type 1 or 2 with the maps h: a turn of the loop
\* reads a bit or more, or is the last
inflCoded(c, dat, r, h, dict) ==
    IF h.pos > 8 * Len(dat) THEN [r EXCEPT !.end = "break"]
    ELSE inflSymbols(c, dat, [r EXCEPT !.pos = h.pos], h.lm, h.dm, dict, 8 * Len(dat) + 1)

\* one block: r.pos is past the 3 bits of its header
inflBlock(c, dat, r, type, dict) ==
    IF type = 0
    THEN inflStored(dat, r, shft(r.pos) + 4,
                    Elem(dat, shft(r.pos)) + 256 * Elem(dat, shft(r.pos) + 1))
    ELSE IF type = 3
    THEN [r EXCEPT !.end = IF r.pos > 8 * Len(dat) THEN "break" ELSE "throw"]
    ELSE inflCoded(c, dat, r, inflHeader(dat, r.pos, type), dict)

\* do { ... } while (!final)
RECURSIVE inflBlocks(_, _, _, _)
inflBlocks(c, dat, r, dict) ==
    IF r.end = "throw" THEN Throw(TypeError)
    ELSE IF r.end = "hang" THEN NoReturn
    ELSE IF r.end = "break" \/ (r.end = "eob" /\ r.final = 1) THEN [kind |-> "ok", val |-> r.buf]
    ELSE inflBlocks(c, dat,
                    inflBlock(c, dat, [r EXCEPT !.pos = @ + 3, !.final = bits(dat, r.pos, 1),
                                                !.end = ""],
                              bits(dat, r.pos + 1, 3), dict),
                    dict)

\* inflt(dat, { i: 2 }, undefined, dict), dict being <<>> for undefined or the one
\* array given
inflt(c, dat, dict) ==
    IF Len(dat) = 0 THEN [kind |-> "ok", val |-> <<>>]
    ELSE inflBlocks(c, dat, [pos |-> 0, buf |-> <<>>, final |-> 0, end |-> ""], dict)

\* inflate(data, opts) = inflt(data, { i: 2 }, opts && opts.out, opts && opts.dictionary)
inflate(c, dat, o) == inflt(c, dat, IF Has(o, "dictionary") THEN <<o["dictionary"]>> ELSE <<>>)

-----------------------------------------------------------------------------
(* deflate and then inflate with the same options.  The texts are short    *)
(* ones over two letters and two long ones without a repetition: bytes of  *)
(* 9-bit codes two apart, which a stored block holds in fewer bits, and    *)
(* consecutive ones, which a dynamic block does.                           *)

\* the longest short text
MaxText == 4

\* the length of the long texts
LongLength == 41

Spread == [i \in 1..LongLength |-> 142 + 2 * i]
Run == [i \in 1..LongLength |-> 143 + i]

Texts == SeqsUpTo({97, 98}, MaxText) \cup {Spread, Run}

Levels == {0, 1, 6, 9}

DeflateOptions ==
    {EmptyObject}
    \cup {[level |-> lv] : lv \in Levels}
    \cup {[level |-> lv, mem |-> m] : lv \in Levels, m \in {0, 12}}
    \cup {[level |-> lv, dictionary |-> dict] : lv \in Levels, dict \in {<<0>>, <<97>>, <<97, 98>>}}

\* deflate(data, opts), in a build with either constants.ts
CallDeflate ==
    /\ ~Called(zipped)
    /\ \E c \in Constants :
          zipped' = [kind |-> "ok", val |-> deflateLevel(c, data, opts), constants |-> c]
    /\ UNCHANGED <<data, opts, now, flat, input, filter, unz, yielded, localReads>>

\* inflate(deflated, opts) in the same build: the dictionary is that of deflate
CallInflate ==
    /\ Called(zipped)
    /\ ~Called(unz)
    /\ unz' = inflate(zipped.constants, zipped.val, opts)
    /\ UNCHANGED <<data, opts, now, flat, zipped, input, filter, yielded, localReads>>

InitDeflate ==
    /\ data \in Texts
    /\ opts \in DeflateOptions
    /\ now = Today
    /\ flat = NotCalled
    /\ zipped = NotCalled
    /\ input = <<>>
    /\ filter = "none"
    /\ unz = NotCalled
    /\ yielded = <<>>
    /\ localReads = {}

NextDeflate == CallDeflate \/ CallInflate

SpecDeflate == InitDeflate /\ [][NextDeflate]_vars

\* C15: for every byte sequence x and every valid option set (level 0..9, mem
\* 0..12, an optional dictionary given to both sides), inflate(deflate(x, opts))
\* returns exactly x.
C15_RoundTrip == Called(unz) => unz = [kind |-> "ok", val |-> data]

-----------------------------------------------------------------------------
(* Archives with ZIP64 records, as other writers produce them.             *)

\* the most entries an end record declares
MaxDeclared == 3

\* a field of n bytes that holds the bytes given, then zeros
Field(bytes, n) == bytes \o Zeros(n - Len(bytes))

\* the 32-bit fields of a file header that a ZIP64 writer fills with 0xffffffff
Zip64Fields == {"compressedSize", "uncompressedSize", "localFileHeaderOffset"}

\* the local file header of the file "a" and its data "HI", at offset 0
LocalFile == <<80, 75, 3, 4>> \o Zeros(22) \o <<1, 0, 0, 0>> \o <<97>> \o <<72, 73>>

\* the extra record with id 1: original size 2, compressed size 2, offset 0
Zip64Extra == <<1, 0, 24, 0>> \o Field(<<2>>, 8) \o Field(<<2>>, 8) \o Zeros(8)

\* an extra record with another id, 0x5455
OtherExtra == <<85, 84, 5, 0, 1, 0, 0, 0, 0>>

\* the extra fields of the central header: with and without a record of id 1
Extras == {<<>>, Zip64Extra, OtherExtra \o Zip64Extra, OtherExtra}

\* the central directory file header of the file "a", the fields in
\* saturated holding 0xffffffff and the others the value itself
CentralFile(saturated, extra) ==
    <<80, 75, 1, 2>> \o Zeros(16)
      \o (IF "compressedSize" \in saturated THEN Uint32Max ELSE Field(<<2>>, 4))
      \o (IF "uncompressedSize" \in saturated THEN Uint32Max ELSE Field(<<2>>, 4))
      \o <<1, 0>> \o Field(NumOfInt(Len(extra)), 2) \o Zeros(10)
      \o (IF "localFileHeaderOffset" \in saturated THEN Uint32Max ELSE Zeros(4))
      \o <<97>> \o extra

\* the zip64 end of central directory record and its locator
Zip64End(count, size, offset, at) ==
    <<80, 75, 6, 6>> \o Field(<<44>>, 8) \o <<45, 0, 45, 0>> \o Zeros(8)
      \o Field(NumOfInt(count), 8) \o Field(NumOfInt(count), 8)
      \o Field(NumOfInt(size), 8) \o Field(NumOfInt(offset), 8)
      \o <<80, 75, 6, 7>> \o Zeros(4) \o Field(NumOfInt(at), 8) \o <<1, 0, 0, 0>>

\* the end of central directory record
EndRecord(count, size, offset) ==
    <<80, 75, 5, 6>> \o Zeros(4) \o Field(count, 2) \o Field(count, 2)
      \o Field(size, 4) \o Field(offset, 4) \o <<0, 0>>

\* An archive of the one file "a" whose end record declares a number of
\* entries: in ZIP64 format, the end record holding 0xffff and 0xffffffff, or
\* not.
Archive(zip64, saturated, extra, declared) ==
    LET cd == CentralFile(saturated, extra)
        o == Len(LocalFile)
    IN  LocalFile \o cd
          \o (IF zip64
              THEN Zip64End(declared, Len(cd), o, o + Len(cd))
                     \o EndRecord(<<255, 255>>, Uint32Max, Uint32Max)
              ELSE EndRecord(NumOfInt(declared), NumOfInt(Len(cd)), NumOfInt(o)))

Zip64Buffers ==
    {Archive(z, s, x, n) : z \in BOOLEAN, s \in SUBSET Zip64Fields, x \in Extras,
                           n \in 1..MaxDeclared}

InitZip64 ==
    /\ data = <<>>
    /\ opts = EmptyObject
    /\ now = Today
    /\ flat = NotCalled
    /\ zipped = NotCalled
    /\ input \in Zip64Buffers
    /\ filter = "none"
    /\ unz = NotCalled
    /\ yielded = <<>>
    /\ localReads = {}

NextZip64 == UnzipBuffer \/ UnzipNext

SpecZip64 == InitZip64 /\ [][NextZip64]_vars

\* a next() of the generator can be called: UnzipNext is enabled
Resumable == unz.kind = "ok" /\ unz.val.pos \in {"start", "loop"}

\* The caller calls unzip and goes on calling next() as long as the generator
\* is not done: weak fairness of both operations, that of UnzipNext written
\* with its guard.
SpecZip64Fair ==
    SpecZip64 /\ WF_vars(UnzipBuffer) /\ ([]<>(~Resumable) \/ []<><<UnzipNext>>_vars)

\* C21: iterating the generator unzip returned terminates: for every buffer
\* in which the scan found an end record, the caller who goes on calling
\* next() gets to the end of the generator, also when the extra field of a
\* ZIP64 entry holds no record with id 1 and when the end record declares more
\* entries than the central directory holds.
C21_IterationEnds ==
    <>(Called(unz) /\ (unz.kind = "ok" => unz.val.pos = "done"))

-----------------------------------------------------------------------------
(* The fields of a ZIP64 entry.                                            *)

\* the offsets of the n central directory file headers from offset on
RECURSIVE HeaderOffsets(_, _, _)
HeaderOffsets(buffer, offset, n) ==
    IF n = 0 THEN <<>>
    ELSE <<offset>> \o HeaderOffsets(buffer, readCentralDirectory(buffer, offset, TRUE).nextOffset,
                                     n - 1)

\* the 32-bit field at at32, or, when it holds 0xffffffff, the 8 bytes at at64
Substituted(buffer, at32, at64) ==
    IF getUint32(buffer, at32) = Uint32Max THEN getUint64(buffer, at64)
    ELSE getUint32(buffer, at32)

\* the header at offset h has an extra record with id 1
HasZip64Record(buffer, h) ==
    Zip64Record(buffer, IndexOf(h) + 46 + getUint16(buffer, IndexOf(h) + 28)).found

\* the three values of the header at offset h, each field substituted on its own
SubstitutedFields(buffer, h) ==
    LET at == IndexOf(h)
        record == Zip64Record(buffer, at + 46 + getUint16(buffer, at + 28)).at
    IN  [compressedSize |-> Substituted(buffer, at + 20, record + 12),
         uncompressedSize |-> Substituted(buffer, at + 24, record + 4),
         localFileHeaderOffset |-> Substituted(buffer, at + 42, record + 20)]

\* C26: in a ZIP64 archive read without a filter, each file the generator has
\* yielded carries, for the compressed size, the uncompressed size and the
\* local header offset of its central directory header alike, the 8-byte
\* value of the extra record with id 1 when the 32-bit field holds 0xffffffff
\* and the 32-bit value otherwise, each field on its own.
C26_FieldsIndependent ==
    Called(unz) /\ unz.kind = "ok" /\ unz.val.isZip64 /\ filter = "none" =>
        \A i \in 1..Len(yielded) :
            LET start == Begin(input, Generator(ScanEnd(input)))
                h == HeaderOffsets(input, start.centralDirectoryOffset, i)[i]
                fields == SubstitutedFields(input, h)
            IN  HasZip64Record(input, h) =>
                    /\ yielded[i].size = fields.compressedSize
                    /\ yielded[i].originalSize = fields.uncompressedSize
                    /\ fields.localFileHeaderOffset \in localReads

-----------------------------------------------------------------------------
(* The window of the scan for the end of central directory record.         *)

\* the offsets from length - 65557 to length - 22 that lie in the buffer
StatedWindow(buffer) ==
    {e \in 0..(Len(buffer) - MIN_END_OF_CENTRAL_DIRECTORY_SIZE) :
        Len(buffer) - e <= MaxScanDistance - 1}

\* C25: unzip accepts the signature 0x06054B50 only at an offset from
\* length - 65557 to length - 22, the one nearest to the end; when the
\* signature is at none of these offsets, because it is further from the end
\* or because the scan came to the start of the buffer, the result is the Err
\* InvalidZipData.
C25_ScanWindow ==
    Called(unz) =>
        /\ unz.kind = "ok" =>
              /\ unz.val.e \in StatedWindow(input)
              /\ SignatureAt(input, unz.val.e)
              /\ \A e \in StatedWindow(input) : e > unz.val.e => ~SignatureAt(input, e)
        /\ (\A e \in StatedWindow(input) : ~SignatureAt(input, e)) =>
              unz = [kind |-> "err", err |-> [code |-> InvalidZipData]]

-----------------------------------------------------------------------------
(* inflate on streams that deflate did not write.                          *)

\* the longest stream made of the bytes below
MaxStream == 3

\* First bytes of a block: stored (0), fixed and final (3), dynamic and final
\* (5), of type 3 and final (7), and all bits set.
StreamBytes == {0, 3, 5, 7, 255}

\* a final dynamic block whose code lengths are all 0; an empty stored block
\* and then a block of type 3; a stored block that is final; a fixed block
\* of the literal "a" and the end of block
LongStreams ==
    {<<5, 0, 0, 0>>, <<0, 0, 0, 0, 0, 7>>, <<1, 2, 0, 253, 255, 97, 98>>, <<75, 4, 0>>}

Streams == SeqsUpTo(StreamBytes, MaxStream) \cup LongStreams

InitInflate ==
    /\ data = <<>>
    /\ opts \in {EmptyObject, [dictionary |-> <<97>>]}
    /\ now = Today
    /\ flat = NotCalled
    /\ zipped \in {[kind |-> "ok", val |-> s, constants |-> c] : s \in Streams, c \in Constants}
    /\ input = <<>>
    /\ filter = "none"
    /\ unz = NotCalled
    /\ yielded = <<>>
    /\ localReads = {}

NextInflate == CallInflate

SpecInflate == InitInflate /\ [][NextInflate]_vars

\* C22: inflate terminates on every byte sequence, valid or corrupt: a call
\* of inflate comes to an end, with the bytes decoded or with an error, and
\* is never the call NoReturn stands for, whose symbol loop repeats with the
\* same bit position for ever.
C22_InflateEnds == Called(unz) => unz.kind \in {"ok", "throw"}

\* error.ts: the code of "invalid block type"
InvalidBlockType == 1

\* an Error with the code ind, as err(ind) builds it
FlateError(ind) == [code |-> ind]

\* the first block header of the stream has BTYPE = 11
FirstBlockType3(dat) == Len(dat) > 0 /\ bits(dat, 1, 3) = 3

\* C23: inflate of a stream whose block header has BTYPE = 11 fails with the
\* error of code InvalidBlockType, and no bytes are returned by the call.
C23_InvalidBlockType ==
    Called(unz) /\ FirstBlockType3(zipped.val) => unz = Throw(FlateError(InvalidBlockType))

-----------------------------------------------------------------------------
(* deflate at level 0: the stored blocks.                                  *)

\* the longest of the short inputs
MaxShort == 24

\* the most bytes a stored block holds: LEN has 16 bits
MaxStored == 65535

\* inputs of one byte value, short ones and ones about the size of a block
StoredInputs ==
    {[i \in 1..n |-> b] : n \in (0..MaxShort) \cup {MaxStored - 1, MaxStored, MaxStored + 1},
                          b \in {0, 255}}

InitStored ==
    /\ data \in StoredInputs
    /\ opts \in {[level |-> 0], [level |-> 0, dictionary |-> <<97>>]}
    /\ now = Today
    /\ flat = NotCalled
    /\ zipped = NotCalled
    /\ input = <<>>
    /\ filter = "none"
    /\ unz = NotCalled
    /\ yielded = <<>>
    /\ localReads = {}

NextStored == CallDeflate

SpecStored == InitStored /\ [][NextStored]_vars

\* The stored blocks that the bytes of out from offset at on are read as: the
\* header byte, LEN, NLEN, and LEN bytes, block after block to the end of out.
RECURSIVE StoredBlocks(_, _)
StoredBlocks(out, at) ==
    IF at >= Len(out) THEN <<>>
    ELSE LET len == Elem(out, at + 1) + 256 * Elem(out, at + 2)
         IN  <<[header |-> Elem(out, at),
                len |-> len,
                nlen |-> Elem(out, at + 3) + 256 * Elem(out, at + 4),
                payload |-> Slice(out, at + 5, at + 5 + len),
                next |-> at + 5 + len]>>
               \o StoredBlocks(out, at + 5 + len)

\* the payloads of the blocks, one after the other
RECURSIVE Payloads(_)
Payloads(blocks) ==
    IF blocks = <<>> THEN <<>> ELSE Head(blocks).payload \o Payloads(Tail(blocks))

\* C24: what deflate returns at level 0 is a sequence of stored blocks: each
\* has BTYPE 00, at most 65535 bytes, LEN and its one's complement; the
\* blocks end where the output ends; their payloads, one after the other, are
\* the input; and BFINAL is 1 on the last block and on no other.
C24_StoredBlocks ==
    Called(zipped) =>
        LET blocks == StoredBlocks(zipped.val, 0)
        IN  /\ blocks # <<>>
            /\ blocks[Len(blocks)].next = Len(zipped.val)
            /\ \A k \in 1..Len(blocks) :
                  /\ blocks[k].header \in {0, 1}
                  /\ blocks[k].len <= MaxStored
                  /\ blocks[k].nlen = 65535 - blocks[k].len
                  /\ Len(blocks[k].payload) = blocks[k].len
                  /\ blocks[k].header = 1 <=> k = Len(blocks)
            /\ Payloads(blocks) = data

-----------------------------------------------------------------------------
(* The version fields of the headers zip writes.                           *)

\* the tuples zip keeps for the entries of the tree, in the order written
ZipFilesOf(tree, options) ==
    zipFiles(flatten(tree, options).out, [kind |-> "ok", files |-> <<>>, o |-> 0, tot |-> 0])

\* The offset at which the second loop of zip writes the central directory
\* file header of files[i], the first one being at o: o advances by 16, by
\* the length of the local header as written, which holds the comment, and by
\* the length of the comment.
RECURSIVE CentralOffset(_, _, _)
CentralOffset(files, o, i) ==
    IF i = 1 THEN o
    ELSE CentralOffset(files, o, i - 1) + 46 + Len(files[i - 1].fileName)
           + files[i - 1].extraFieldLength
           + 2 * (IF files[i - 1].comment = <<>> THEN 0 ELSE Len(files[i - 1].comment[1]))

\* C27: in the archive zip returned, the central directory file header of
\* every entry that has an os option holds it at offset 5, the high byte of
\* the version made by; every central header holds 20 at offset 6 and every
\* local file header holds 20 at offset 4, the version needed to extract.
C27_VersionFields ==
    zipped.kind = "ok" =>
        LET collected == ZipFilesOf(data, opts)
        IN  \A i \in 1..Len(collected.files) :
                LET m == collected.files[i]
                    central == CentralOffset(collected.files, collected.o, i)
                IN  /\ m.os # <<>> => Byte(zipped.val, central + 5) = m.os[1]
                    /\ Byte(zipped.val, central + 6) = 20
                    /\ Byte(zipped.val, central + 7) = 0
                    /\ Byte(zipped.val, m.offset + 4) = 20
                    /\ Byte(zipped.val, m.offset + 5) = 0

-----------------------------------------------------------------------------
(* The time and date field of the headers zip writes.                      *)

\* the two bytes of a 16-bit value, low byte first
Le16(value) == <<value % 256, value \div 256>>

\* The MS-DOS time and date of dt as the 4 bytes of the unsigned 32-bit value
\* ((year - 1980) << 25) | (month << 21) | (day << 16) | (hour << 11)
\* | (minute << 5) | (second >> 1), low byte first, the month counted from 1:
\* its low half is the time and its high half the date.
PackedTimeDate(dt) ==
    Le16(dt.hours * 2048 + dt.minutes * 32 + dt.seconds \div 2)
      \o Le16((dt.year - 1980) * 512 + (dt.month + 1) * 32 + dt.date)

-----------------------------------------------------------------------------
(* zip of files dated at the ends of the range of years, months, days and  *)
(* times that a header holds.                                              *)

\* the first and the last year of a header, and the years on both sides of
\* bit 31 of the packed value
DateYears == {1980, 2043, 2044, 2099}

Dates ==
    {Date(y, md[1], md[2], t[1], t[2], t[3]) :
        y \in DateYears, md \in {<<0, 1>>, <<11, 31>>},
        t \in {<<0, 0, 0>>, <<12, 34, 57>>, <<23, 59, 59>>}}

\* a file "a" with each date or with none, alone, before a file "b", or in
\* a map "d"
DateTrees ==
    {<< <<<<97>>, Arr(U8(Payload), [mtime |-> dt])>> >> : dt \in Dates}
    \cup {<< <<<<97>>, Arr(U8(Payload), [mtime |-> dt])>>, <<<<98>>, U8(Payload)>> >> : dt \in Dates}
    \cup {<< <<<<100>>, Dir(<< <<<<97>>, Arr(U8(<<>>), [mtime |-> dt])>> >>)>> >> : dt \in Dates}
    \cup {<< <<<<97>>, U8(Payload)>> >>}

InitDates ==
    /\ data \in DateTrees
    /\ opts \in {EmptyObject, [mtime |-> Date(2001, 1, 3, 4, 5, 6)]}
    /\ now = Today
    /\ flat = NotCalled
    /\ zipped = NotCalled
    /\ input = <<>>
    /\ filter = "none"
    /\ unz = NotCalled
    /\ yielded = <<>>
    /\ localReads = {}

NextDates == CallZip

SpecDates == InitDates /\ [][NextDates]_vars

\* C28: in the archive zip returned, the time and date field of the local
\* file header (offset 10) and of the central directory file header (offset
\* 12) of every entry is the packed value of the entry's mtime, or of the
\* wall clock for an entry without one, as 4 bytes low byte first, also for
\* the years from 2044 on, whose packed value has bit 31 set.
C28_TimeDateField ==
    zipped.kind = "ok" =>
        LET collected == ZipFilesOf(data, opts)
        IN  \A i \in 1..Len(collected.files) :
                LET m == collected.files[i]
                    dt == IF m.mtime = <<>> THEN now ELSE m.mtime[1]
                    central == CentralOffset(collected.files, collected.o, i)
                IN  /\ Slice(zipped.val, m.offset + 10, m.offset + 14) = PackedTimeDate(dt)
                    /\ Slice(zipped.val, central + 12, central + 16) = PackedTimeDate(dt)

\* C28 (witness): an archive with an entry dated 2099-12-31 23:59:59, whose
\* field is 7D BF 9F EF in both headers
C28_Witness ==
    /\ zipped.kind = "ok"
    /\ \E i \in 1..Len(ZipFilesOf(data, opts).files) :
          LET m == ZipFilesOf(data, opts).files[i]
          IN  /\ m.mtime = <<Date(2099, 11, 31, 23, 59, 59)>>
              /\ Slice(zipped.val, m.offset + 10, m.offset + 14) = <<125, 191, 159, 239>>

-----------------------------------------------------------------------------
(* Two calls of zip at different times of the wall clock.  The result of   *)
(* the first call is zipped, that of the second is unz.                    *)

\* what new Date() gives at the second call: the next second, another year,
\* and a year no header holds
LaterClocks == {Date(2024, 4, 17, 12, 34, 58), Date(2051, 0, 1, 0, 0, 0), Date(2100, 0, 1, 0, 0, 0)}

\* files with and without an mtime, a map with a file, a key with a slash,
\* an empty map
ClockEntries ==
    { <<<<97>>, U8(Payload)>>,
      <<<<97>>, Arr(U8(Payload), [mtime |-> Date(1980, 0, 1, 0, 0, 0)])>>,
      <<<<98>>, Arr(U8(Payload), [mtime |-> Date(2099, 11, 31, 23, 59, 59)])>>,
      <<<<98>>, Arr(U8(<<>>), [os |-> 3])>>,
      <<<<100>>, Dir(<< <<<<120>>, Arr(U8(Payload), [mtime |-> Date(1980, 0, 1, 0, 0, 0)])>> >>)>>,
      <<<<100, 47, 120>>, Arr(U8(Payload), [mtime |-> Date(2099, 11, 31, 23, 59, 59)])>>,
      <<<<101>>, Dir(<<>>)>> }

ClockTrees == {tree \in SeqsUpTo(ClockEntries, MaxEntries) : DistinctKeys(tree)}

InitClock ==
    /\ data \in ClockTrees
    /\ opts \in {EmptyObject, [mtime |-> Date(2001, 1, 3, 4, 5, 6)]}
    /\ now = Today
    /\ flat = NotCalled
    /\ zipped = NotCalled
    /\ input = <<>>
    /\ filter = "none"
    /\ unz = NotCalled
    /\ yielded = <<>>
    /\ localReads = {}

\* time passes between the two calls
Tick ==
    /\ Called(zipped)
    /\ ~Called(unz)
    /\ now = Today
    /\ now' \in LaterClocks
    /\ UNCHANGED <<data, opts, flat, zipped, input, filter, unz, yielded, localReads>>

\* zip(data, opts), a second time
CallZipAgain ==
    /\ Called(zipped)
    /\ ~Called(unz)
    /\ unz' = zip(data, opts)
    /\ UNCHANGED <<data, opts, now, flat, zipped, input, filter, yielded, localReads>>

NextClock == CallZip \/ Tick \/ CallZipAgain

SpecClock == InitClock /\ [][NextClock]_vars

\* every file of the tree has an mtime, its own or that of the options
RECURSIVE FilesDated(_, _)
FilesDated(tree, options) ==
    \A i \in 1..Len(tree) :
        LET value == tree[i][2]
        IN  CASE value.t = "u8" -> Has(options, "mtime")
              [] value.t = "dir" -> FilesDated(value.d, options)
              [] value.t = "arr" ->
                    IF value.v.t = "u8" THEN Has(value.a, "mtime") \/ Has(options, "mtime")
                    ELSE FilesDated(value.v.d, RestOf(value.a) @@ options)

\* C29: what zip returns depends on the tree and the options only: for a
\* tree in which every file has an mtime, a second call returns what the
\* first one did, whatever the wall clock is at each call; and in an archive
\* zip returned, the local file header and the central directory file header
\* of an entry hold the same time and date field.
C29_ClockFree ==
    /\ Called(zipped) /\ Called(unz) /\ FilesDated(data, opts) => unz = zipped
    /\ zipped.kind = "ok" =>
          LET collected == ZipFilesOf(data, opts)
          IN  \A i \in 1..Len(collected.files) :
                  Slice(zipped.val, collected.files[i].offset + 10,
                        collected.files[i].offset + 14)
                    = Slice(zipped.val, CentralOffset(collected.files, collected.o, i) + 12,
                            CentralOffset(collected.files, collected.o, i) + 16)

-----------------------------------------------------------------------------
(* hTree applied to a frequency table.  The table is data, max_bits is     *)
(* opts.mb, and the value returned, or the error thrown, is zipped.        *)

MaxSymbols == 4
MaxBits == 4

\* the elements of d: none, small counts, a count too large to add up with
\* others below the sentinel
Frequencies == {0, 1, 2, 4, 20000}

\* longer tables: trees of depth 4 and 7, in and out of order
LongTables ==
    { <<1, 1, 2, 3, 3, 20>>, <<3, 20, 1, 0, 2, 1, 3>>,
      <<1, 1, 2, 3, 5, 8, 13, 21>>, <<21, 13, 8, 5, 3, 2, 1, 1>> }

Tables == UNION {[1..n -> Frequencies] : n \in 2..MaxSymbols} \cup LongTables

InitTree ==
    /\ data \in Tables
    /\ opts \in [mb : 1..MaxBits]
    /\ now = Today
    /\ flat = NotCalled
    /\ zipped = NotCalled
    /\ input = <<>>
    /\ filter = "none"
    /\ unz = NotCalled
    /\ yielded = <<>>
    /\ localReads = {}

\* what a caller of hTree(d, mb) gets
hTreeOutcome(d, mb) ==
    IF "kind" \in DOMAIN hTree(d, mb) THEN hTree(d, mb) ELSE [kind |-> "ok", val |-> hTree(d, mb)]

CallHTree ==
    /\ ~Called(zipped)
    /\ zipped' = hTreeOutcome(data, opts.mb)
    /\ UNCHANGED <<data, opts, now, flat, input, filter, unz, yielded, localReads>>

NextTree == CallHTree

SpecTree == InitTree /\ [][NextTree]_vars

RECURSIVE Total(_)
Total(d) == IF d = <<>> THEN 0 ELSE Head(d) + Total(Tail(d))

\* the tables and max_bits of the claim: two or more symbols in use, and
\* codes of mb bits enough for them
CanHold(d, mb) == Cardinality(Used(d)) >= 2 /\ Pow2(mb) >= Cardinality(Used(d))

\* the length of symbol k in the code lengths t, which end at the last
\* symbol in use
LengthOf(t, k) == IF k <= Len(t) THEN t[k] ELSE 0

\* the sum of 2^-length over the symbols in use, times 2^mb
KraftSum(d, t, mb) == Total([p \in 1..Len(d) |-> IF d[p] # 0 THEN Pow2(mb - LengthOf(t, p)) ELSE 0])

\* lengths of 1 to mb for the symbols in use, 0 for the others, and a Kraft
\* sum of at most 1
GoodLengths(d, t, mb) ==
    /\ Len(t) <= Len(d)
    /\ \A k \in 1..Len(d) :
          IF d[k] # 0 THEN LengthOf(t, k) \in 1..mb ELSE LengthOf(t, k) = 0
    /\ KraftSum(d, t, mb) <= Pow2(mb)

\* C30 (as stated): for every frequency table with two or more entries that
\* are not 0 and every max_bits that can hold that many symbols, hTree
\* returns a length of 1 to max_bits for each symbol in use and 0 for every
\* other symbol, and the lengths satisfy the Kraft inequality, also when the
\* lengths are shortened.
C30_AsStated ==
    Called(zipped) /\ CanHold(data, opts.mb) =>
        zipped.kind = "ok" /\ GoodLengths(data, zipped.val.t, opts.mb)

\* C30: the same, for the tables whose frequencies add up to less than the
\* frequency 25001 of the sentinel node, as the tables of a deflate block do.
C30_CodeLengths ==
    Called(zipped) /\ CanHold(data, opts.mb) /\ Total(data) < SentinelFrequency =>
        zipped.kind = "ok" /\ GoodLengths(data, zipped.val.t, opts.mb)

\* C30 (witness): a table whose tree is deeper than max_bits, with lengths
\* returned that were shortened to max_bits
C30_Witness ==
    /\ zipped.kind = "ok"
    /\ CanHold(data, opts.mb)
    /\ Total(data) < SentinelFrequency
    /\ hTreeLengths(hTreeRoot(SortByFrequency(data, Used(data)))).l > opts.mb
    /\ zipped.val.l = opts.mb
    /\ \E k \in Used(data) : zipped.val.t[k] = opts.mb

=============================================================================
